---- MODULE Spec2Model ----
(***************************************************************************)
(* Annotation request lifecycle of the annotation tool.                    *)
(*                                                                         *)
(* File store (ar/data.py): one JSON file per annotation request under     *)
(* <task>/DIR_AREQ/<user>/<ar_id>.json and one file per annotation under   *)
(* <task>/DIR_ANNO/<user>/<ar_id>.json, for one task.                      *)
(***************************************************************************)
EXTENDS Integers, Sequences, FiniteSets, TLC

(***************************************************************************)
(* Bounds and input sets                                                   *)
(***************************************************************************)
\* Greatest value of the file-system clock: bounds the number of request
\* files ever written in a behaviour.
MaxClock == 3

\* Greatest number of requests handed to one save_new_ar_for_user call.
MaxBatch == 2

\* Python's None.
None == "None"

Users == {"u1", "u2"}

\* The annotator whose calls Spec follows.
Annotators == {"u1"}

\* ar_ids that requests carry.
ArIds == {"a", "b", "c"}

\* An ar_id that no request carries (the annotation page's first call).
UnknownId == "zz"

\* Payloads of a request (req['data']).
Data == {"d1", "d2"}

AnnoLabels == {"HEALTHCARE"}

\* A request dict as save_new_ar_for_user receives it.
Requests == [ar_id : ArIds, data : Data]

\* The annotation dict annotate_ar receives: {'labels': {label: value}}.
AnnotationInputs == {[labels |-> f] : f \in [AnnoLabels -> {1, -1}]}

NoAnnotation == [labels |-> [l \in {} |-> 0]]

\* None where a request dict, or an annotation record, is expected.
NoRequest == [ar_id |-> None, data |-> None]
NoRecord == [req |-> NoRequest, anno |-> NoAnnotation]

\* Sequences over S of length at most n.
SeqUpTo(S, n) == UNION {[1..k -> S] : k \in 0..n}

\* Injective sequences enumerating exactly the set S.
Perms(S) ==
    {s \in [1..Cardinality(S) -> S] : \A i, j \in 1..Cardinality(S) :
                                          s[i] = s[j] => i = j}

Reverse(s) == [i \in 1..Len(s) |-> s[Len(s) + 1 - i]]

VARIABLES
    areq_isdir,   \* areq_isdir[u]: the directory DIR_AREQ/<u> exists
    areq,         \* areq[u]: ar_id -> [req, ctime], the files of DIR_AREQ/<u>
    anno_isdir,   \* anno_isdir[u]: the directory DIR_ANNO/<u> exists
    anno,         \* anno[u]: ar_id -> [req, anno], the files of DIR_ANNO/<u>
    clock,        \* the file-system time, in units of the ctime granularity
    last,         \* the last call on the file store and what it returned
    celery_queue, \* the generate_annotation_requests jobs handed to celery
    job_status,   \* the job statuses created in Redis
    web_last,     \* the last request to the admin server and its outcome
    ar_table,     \* the rows of the annotation_request table
    db_next_id,   \* the next primary key of the annotation_request table
    db_last,      \* the last database call and what it returned
    conc,         \* the two annotators' calls in progress, step by step
    ca_table,     \* the rows of the classification_annotation table, by id
    ca_last,      \* the last aggregation over ca_table and what it returned
    pure_last,    \* the last call of a list function and what it returned
    dir_order,    \* the order in which os.scandir yields the names it finds
    exp_last,     \* the last export of the labelled examples
    task_table,   \* the rows of the task table
    sessions      \* the database sessions running get_or_create, step by step

fsVars == <<areq_isdir, areq, anno_isdir, anno, clock>>
webVars == <<celery_queue, job_status, web_last>>
dbVars == <<ar_table, db_next_id, db_last>>
moreVars == <<dir_order, exp_last, task_table, sessions>>
extVars == <<conc, ca_table, ca_last, pure_last, moreVars>>
vars == <<areq_isdir, areq, anno_isdir, anno, clock, last, celery_queue,
          job_status, web_last, ar_table, db_next_id, db_last, conc,
          ca_table, ca_last, pure_last, dir_order, exp_last, task_table,
          sessions>>

EmptyDir == [i \in {} |-> 0]

NoStats == [n_annotations_per_user |-> EmptyDir,
            n_outstanding_requests_per_user |-> EmptyDir,
            total_annotations |-> 0,
            total_outstanding_requests |-> 0]

\* Shape of the record kept in last.
Call(op, user, ar_id, clean, batch, annotation, ret, list, iters, raised) ==
    [op |-> op, user |-> user, ar_id |-> ar_id, clean |-> clean,
     batch |-> batch, annotation |-> annotation, ret |-> ret, list |-> list,
     iters |-> iters, raised |-> raised, stats |-> NoStats]

NoCall == Call("init", None, None, FALSE, <<>>, NoAnnotation, None, <<>>, 0,
               None)

(***************************************************************************)
(* Reading the store                                                       *)
(***************************************************************************)
\* The listings sorted(dir_entries, key=st_ctime_ns, reverse=True) can give:
\* every enumeration of the directory that never puts an older file before
\* a newer one (sorted is stable, so files of equal ctime keep the arbitrary
\* order of os.scandir).
SortedByCtimeAsc(files) ==
    {s \in Perms(DOMAIN files) :
        \A i, j \in 1..Len(s) : i < j => files[s[i]].ctime <= files[s[j]].ctime}

SortedByCtimeDesc(files) ==
    {s \in Perms(DOMAIN files) :
        \A i, j \in 1..Len(s) : i < j => files[s[i]].ctime >= files[s[j]].ctime}

\* fetch_all_ar: the possible return values.
fetch_all_ar(u) ==
    IF areq_isdir[u] THEN SortedByCtimeDesc(areq[u]) ELSE {<<>>}

\* fetch_all_ar_ids, as the set get_next_ar and the statistics make of it.
fetch_all_ar_ids(u) ==
    IF anno_isdir[u] THEN DOMAIN anno[u] ELSE {}

fetch_ar(u, ar_id) ==
    IF ar_id \in DOMAIN areq[u] THEN areq[u][ar_id].req ELSE NoRequest

fetch_annotation(u, ar_id) ==
    IF ar_id \in DOMAIN anno[u] THEN anno[u][ar_id] ELSE NoRecord

(***************************************************************************)
(* get_next_ar                                                             *)
(***************************************************************************)
\* list.index(x), 0-based; -1 stands for the ValueError.
ListIndex(s, x) ==
    IF \E i \in 1..Len(s) : s[i] = x
    THEN (CHOOSE i \in 1..Len(s) :
              s[i] = x /\ \A j \in 1..(i - 1) : s[j] # x) - 1
    ELSE -1

\* The loop with its test of ar_done inverted.
RECURSIVE ScanLoop_Inverted(_, _, _, _, _)
ScanLoop_Inverted(ar_all, ar_done, idx, end, n) ==
    IF idx = end
    THEN [ret |-> None, iters |-> n, raised |-> None]
    ELSE IF ar_all[idx + 1] \in ar_done
         THEN [ret |-> ar_all[idx + 1], iters |-> n + 1, raised |-> None]
         ELSE ScanLoop_Inverted(ar_all, ar_done, (idx + 1) % Len(ar_all),
                                end, n + 1)

\* The loop stepping two places at a time.
RECURSIVE ScanLoop_SkipOne(_, _, _, _, _)
ScanLoop_SkipOne(ar_all, ar_done, idx, end, n) ==
    IF idx = end \/ n >= Len(ar_all)
    THEN [ret |-> None, iters |-> n, raised |-> None]
    ELSE IF ar_all[idx + 1] \notin ar_done
         THEN [ret |-> ar_all[idx + 1], iters |-> n + 1, raised |-> None]
         ELSE ScanLoop_SkipOne(ar_all, ar_done, (idx + 2) % Len(ar_all),
                               end, n + 1)

\* The while loop of get_next_ar; idx and end are 0-based, n counts the
\* executions of the loop body.
RECURSIVE ScanLoop(_, _, _, _, _)
ScanLoop(ar_all, ar_done, idx, end, n) ==
    IF idx = end
    THEN [ret |-> None, iters |-> n, raised |-> None]
    ELSE IF ar_all[idx + 1] \notin ar_done
         THEN [ret |-> ar_all[idx + 1], iters |-> n + 1, raised |-> None]
         ELSE ScanLoop(ar_all, ar_done, (idx + 1) % Len(ar_all), end, n + 1)

\* try: idx = ar_all.index(ar_id) / except: idx = 0
StartIndex(ar_all, ar_id) ==
    IF ListIndex(ar_all, ar_id) >= 0 THEN ListIndex(ar_all, ar_id) ELSE 0

\* The body of get_next_ar after the two reads; the modulo by len(ar_all)
\* raises when the list is empty.
NextResult(ar_all, ar_done, ar_id) ==
    IF Len(ar_all) = 0
    THEN [ret |-> None, iters |-> 0, raised |-> "ZeroDivisionError"]
    ELSE ScanLoop(ar_all, ar_done,
                  (StartIndex(ar_all, ar_id) + 1) % Len(ar_all),
                  StartIndex(ar_all, ar_id), 0)

get_next_ar(u, ar_id) ==
    /\ \E ar_all \in fetch_all_ar(u) :
         LET r == NextResult(ar_all, fetch_all_ar_ids(u), ar_id)
         IN last' = Call("get_next_ar", u, ar_id, FALSE, <<>>, NoAnnotation,
                         r.ret, ar_all, r.iters, r.raised)
    /\ UNCHANGED fsVars
    /\ UNCHANGED <<webVars, dbVars, extVars>>

(***************************************************************************)
(* save_new_ar_for_user                                                    *)
(***************************************************************************)
\* The for loop: save_json of one file, then time.sleep(1 / 100.).
RECURSIVE SaveLoop(_, _, _)
SaveLoop(files, reqs, now) ==
    IF reqs = <<>>
    THEN files
    ELSE SaveLoop([id \in DOMAIN files \cup {reqs[1].ar_id} |->
                      IF id = reqs[1].ar_id
                      THEN [req |-> reqs[1], ctime |-> now]
                      ELSE files[id]],
                  Tail(reqs), now + 1)

\* annotation_requests[::-1]
InsertionOrder(annotation_requests) == Reverse(annotation_requests)

\* shutil.rmtree of the request directory when clean_existing
CleanedDir(u, clean_existing) ==
    IF clean_existing /\ areq_isdir[u] THEN EmptyDir ELSE areq[u]

\* save_new_ar_for_user clearing the annotator's annotations as well.
save_new_ar_for_user_CleanAnno(u, annotation_requests, clean_existing) ==
    /\ clock + Len(annotation_requests) <= MaxClock
    /\ areq_isdir' = [areq_isdir EXCEPT ![u] = TRUE]
    /\ areq' = [areq EXCEPT ![u] =
                   SaveLoop(CleanedDir(u, clean_existing),
                            InsertionOrder(annotation_requests), clock)]
    /\ clock' = clock + Len(annotation_requests)
    /\ last' = Call("save_new_ar_for_user", u, None, clean_existing,
                    annotation_requests, NoAnnotation, "basedir", <<>>, 0,
                    None)
    /\ anno' = [anno EXCEPT ![u] = IF clean_existing THEN EmptyDir ELSE @]
    /\ UNCHANGED anno_isdir
    /\ UNCHANGED <<webVars, dbVars, extVars>>

save_new_ar_for_user(u, annotation_requests, clean_existing) ==
    /\ clock + Len(annotation_requests) <= MaxClock
    /\ areq_isdir' = [areq_isdir EXCEPT ![u] = TRUE]
    /\ areq' = [areq EXCEPT ![u] =
                   SaveLoop(CleanedDir(u, clean_existing),
                            InsertionOrder(annotation_requests), clock)]
    /\ clock' = clock + Len(annotation_requests)
    /\ last' = Call("save_new_ar_for_user", u, None, clean_existing,
                    annotation_requests, NoAnnotation, "basedir", <<>>, 0,
                    None)
    /\ UNCHANGED <<anno_isdir, anno>>
    /\ UNCHANGED <<webVars, dbVars, extVars>>

(***************************************************************************)
(* annotate_ar                                                             *)
(***************************************************************************)
\* The annotation file annotate_ar writes.
WriteAnno(u, ar_id, record) ==
    [anno EXCEPT ![u] = [id \in DOMAIN anno[u] \cup {ar_id} |->
                            IF id = ar_id THEN record ELSE anno[u][id]]]

\* annotate_ar without the test of fetch_ar's result.
annotate_ar_NoCheck(u, ar_id, annotation) ==
    /\ anno_isdir' = [anno_isdir EXCEPT ![u] = TRUE]
    /\ anno' = WriteAnno(u, ar_id, [req |-> fetch_ar(u, ar_id),
                                    anno |-> annotation])
    /\ last' = Call("annotate_ar", u, ar_id, FALSE, <<>>, annotation,
                    "fname", <<>>, 0, None)
    /\ UNCHANGED <<areq_isdir, areq, clock>>
    /\ UNCHANGED <<webVars, dbVars, extVars>>

\* annotate_ar saving build_empty_annotation(ar) in place of the record.
annotate_ar_EmptyAnno(u, ar_id, annotation) ==
    /\ IF fetch_ar(u, ar_id) # NoRequest
       THEN /\ anno_isdir' = [anno_isdir EXCEPT ![u] = TRUE]
            /\ anno' = WriteAnno(u, ar_id, [req |-> fetch_ar(u, ar_id),
                                            anno |-> NoAnnotation])
            /\ last' = Call("annotate_ar", u, ar_id, FALSE, <<>>, annotation,
                            "fname", <<>>, 0, None)
       ELSE /\ UNCHANGED <<anno_isdir, anno>>
            /\ last' = Call("annotate_ar", u, ar_id, FALSE, <<>>, annotation,
                            None, <<>>, 0, None)
    /\ UNCHANGED <<areq_isdir, areq, clock>>
    /\ UNCHANGED <<webVars, dbVars, extVars>>

annotate_ar(u, ar_id, annotation) ==
    /\ IF fetch_ar(u, ar_id) # NoRequest
       THEN /\ anno_isdir' = [anno_isdir EXCEPT ![u] = TRUE]
            /\ anno' = WriteAnno(u, ar_id, [req |-> fetch_ar(u, ar_id),
                                            anno |-> annotation])
            /\ last' = Call("annotate_ar", u, ar_id, FALSE, <<>>, annotation,
                            "fname", <<>>, 0, None)
       ELSE /\ UNCHANGED <<anno_isdir, anno>>
            /\ last' = Call("annotate_ar", u, ar_id, FALSE, <<>>, annotation,
                            None, <<>>, 0, None)
    /\ UNCHANGED <<areq_isdir, areq, clock>>
    /\ UNCHANGED <<webVars, dbVars, extVars>>

(***************************************************************************)
(* compute_annotation_statistics: the counts per user                      *)
(***************************************************************************)
RECURSIVE SumOver(_, _)
SumOver(f, S) ==
    IF S = {} THEN 0
    ELSE LET x == CHOOSE y \in S : TRUE IN f[x] + SumOver(f, S \ {x})

_get_all_annotators_from_requested == {u \in Users : areq_isdir[u]}

_get_all_annotators_from_annotated == {u \in Users : anno_isdir[u]}

\* The request ids of a user as the statistics read them.
RequestedIds(u) == IF areq_isdir[u] THEN DOMAIN areq[u] ELSE {}

Statistics ==
    LET user_ids == _get_all_annotators_from_requested
                        \cup _get_all_annotators_from_annotated
        n_anno == [u \in user_ids |-> Cardinality(fetch_all_ar_ids(u))]
        n_out == [u \in user_ids |->
                     Cardinality(RequestedIds(u) \ fetch_all_ar_ids(u))]
    IN [n_annotations_per_user |-> n_anno,
        n_outstanding_requests_per_user |-> n_out,
        total_annotations |-> SumOver(n_anno, user_ids),
        total_outstanding_requests |-> SumOver(n_out, user_ids)]

compute_annotation_statistics ==
    /\ last' = [NoCall EXCEPT !.op = "compute_annotation_statistics",
                              !.stats = Statistics]
    /\ UNCHANGED fsVars
    /\ UNCHANGED <<webVars, dbVars, extVars>>

(***************************************************************************)
(* Admin server: POST /tasks/<id>/assign                                   *)
(***************************************************************************)
\* Greatest number of jobs handed to celery in a behaviour.
MaxJobs == 3

TaskIds == {"t1", "t2"}

\* Values of the form field entity_type when it is posted.
EntityTypes == {"company", "person"}

\* env.int("ANNOTATION_TOOL_MAX_PER_ANNOTATOR", default=100)
DefaultMaxPerAnnotator == 100

\* env.int("ANNOTATION_TOOL_MAX_PER_DP", default=3)
DefaultMaxPerDp == 3

WebCall(op, id, entity_type, raised, ret) ==
    [op |-> op, id |-> id, entity_type |-> entity_type, raised |-> raised,
     ret |-> ret]

\* generate_annotation_requests.delay(...) followed by create_status(...)
Dispatch(id, entity_type) ==
    /\ celery_queue' = Append(celery_queue,
                              [task_id |-> id,
                               max_per_annotator |-> DefaultMaxPerAnnotator,
                               max_per_dp |-> DefaultMaxPerDp,
                               entity_type |-> entity_type])
    /\ job_status' = job_status \cup
                        {[celery_id |-> Len(celery_queue) + 1,
                          name |-> <<"assign", id>>]}
    /\ web_last' = WebCall("assign", id, entity_type, None, "redirect")

\* assign without the test of entity_type.
assign_NoCheck(id, entity_type) ==
    /\ Len(celery_queue) < MaxJobs
    /\ Dispatch(id, entity_type)
    /\ UNCHANGED <<fsVars, last, dbVars, extVars>>

\* entity_type is request.form.get("entity_type"): None when not posted.
assign(id, entity_type) ==
    /\ entity_type # None => Len(celery_queue) < MaxJobs
    /\ IF entity_type = None
       THEN /\ web_last' = WebCall("assign", id, entity_type, "ValueError",
                                   None)
            /\ UNCHANGED <<celery_queue, job_status>>
       ELSE Dispatch(id, entity_type)
    /\ UNCHANGED <<fsVars, last, dbVars, extVars>>

(***************************************************************************)
(* Database: the annotation_request table                                  *)
(***************************************************************************)
\* Greatest number of rows ever inserted in a behaviour.
MaxRows == 2

\* AnnotationRequestStatus
Pending == 0
Complete == 1
Stale == 2

Statuses == {Pending, Complete, Stale}

\* Values of the column order.
Orders == {1, 2}

DbCall(op, user, task_id, status, rows) ==
    [op |-> op, user |-> user, task_id |-> task_id, status |-> status,
     rows |-> rows]

\* dbsession.add(AnnotationRequest(...)); dbsession.commit()
add_annotation_request(user, task_id, status, order) ==
    /\ db_next_id <= MaxRows
    /\ ar_table' = ar_table \cup {[id |-> db_next_id, user |-> user,
                                   task_id |-> task_id, status |-> status,
                                   order |-> order]}
    /\ db_next_id' = db_next_id + 1
    /\ db_last' = DbCall("add", user, task_id, status, <<>>)
    /\ UNCHANGED <<fsVars, last, webVars, extVars>>

\* update_instance(dbsession, AnnotationRequest, {'id': id}, {'status': s})
update_instance(id, status) ==
    /\ ar_table' = {IF r.id = id THEN [r EXCEPT !.status = status] ELSE r :
                       r \in ar_table}
    /\ db_last' = DbCall("update_instance", None, None, status, <<>>)
    /\ UNCHANGED <<db_next_id, fsVars, last, webVars, extVars>>

\* delete_requests_under_task_with_condition(task_id=.., user_id=..)
delete_requests_for_user_under_task(username, task_id) ==
    /\ ar_table' = {r \in ar_table :
                       ~(r.task_id = task_id /\ r.user = username)}
    /\ db_last' = DbCall("delete_requests_for_user_under_task", username,
                         task_id, Pending, <<>>)
    /\ UNCHANGED <<db_next_id, fsVars, last, webVars, extVars>>

\* The filters without the one on status.
FilteredRows_AnyStatus(user, task_id, status) ==
    {r \in ar_table : r.task_id = task_id /\ r.user = user}

\* The rows of the three filters of fetch_ar_for_task.
FilteredRows(user, task_id, status) ==
    {r \in ar_table : r.task_id = task_id /\ r.user = user
                      /\ r.status = status}

\* .order_by(AnnotationRequest.order): every enumeration of the rows in
\* which order never decreases (rows of equal order come in any order).
OrderBy(rows) ==
    {s \in Perms(rows) :
        \A i, j \in 1..Len(s) : i < j => s[i].order <= s[j].order}

\* User.fetch_ar_for_task(task_id, status)
fetch_ar_for_task(user, task_id, status) ==
    /\ \E rows \in OrderBy(FilteredRows(user, task_id, status)) :
          db_last' = DbCall("fetch_ar_for_task", user, task_id, status, rows)
    /\ UNCHANGED <<ar_table, db_next_id, fsVars, last, webVars, extVars>>

(***************************************************************************)
(* Records of the last calls on lists and on classification_annotation     *)
(***************************************************************************)
\* Python's None where a label value is expected: the empty sequence, and
\* <<v>> for the value v.
NoValue == <<>>

\* Shape of the record kept in pure_last.
PureCall(op, labels, r1, r2, ret, ret1, ret2, raised) ==
    [op |-> op, labels |-> labels, r1 |-> r1, r2 |-> r2, ret |-> ret,
     ret1 |-> ret1, ret2 |-> ret2, raised |-> raised]

NoPureCall == PureCall("init", <<>>, <<>>, <<>>, NoValue, <<>>, <<>>, None)

(***************************************************************************)
(* Two annotators of one task at once: save_new_ar_for_user for one,       *)
(* annotate_ar or get_next_ar for the other, each a sequence of file       *)
(* system calls                                                            *)
(***************************************************************************)
\* Requests of the concurrent call, and those already on disk before it.
ConcArIds == {"a", "b"}
ConcRequests == [ar_id : ConcArIds, data : {"d2"}]
OldRequest(id) == [ar_id |-> id, data |-> "d1"]

NoConc == [a_user |-> None, a_pc |-> "idle", a_clean |-> FALSE,
           a_batch |-> <<>>, a_todo |-> <<>>, a_ret |-> None,
           b_user |-> None, b_pc |-> "idle", b_op |-> None,
           b_ar_id |-> None, b_annotation |-> NoAnnotation,
           b_ar |-> NoRequest, b_ar_all |-> <<>>, b_ar_done |-> {},
           b_ret |-> None, b_raised |-> None,
           start |-> [areq_isdir |-> [u \in Users |-> FALSE],
                      areq |-> [u \in Users |-> EmptyDir],
                      anno_isdir |-> [u \in Users |-> FALSE],
                      anno |-> [u \in Users |-> EmptyDir],
                      clock |-> 0]]

\* What a step of the two calls leaves alone.
ConcFrame ==
    UNCHANGED <<last, webVars, dbVars, moreVars, ca_table, ca_last,
                pure_last>>

\* if clean_existing: if os.path.isdir(_basedir): shutil.rmtree(_basedir),
\* removing every annotator's request directory.
save_new_ar_for_user_rmtree_AllUsers ==
    /\ conc.a_pc = "rmtree"
    /\ IF conc.a_clean /\ areq_isdir[conc.a_user]
       THEN /\ areq_isdir' = [u \in Users |-> FALSE]
            /\ areq' = [u \in Users |-> EmptyDir]
       ELSE UNCHANGED <<areq_isdir, areq>>
    /\ conc' = [conc EXCEPT !.a_pc = "mkd"]
    /\ UNCHANGED <<anno_isdir, anno, clock>>
    /\ ConcFrame

\* if clean_existing: if os.path.isdir(_basedir): shutil.rmtree(_basedir)
save_new_ar_for_user_rmtree ==
    /\ conc.a_pc = "rmtree"
    /\ IF conc.a_clean /\ areq_isdir[conc.a_user]
       THEN /\ areq_isdir' = [areq_isdir EXCEPT ![conc.a_user] = FALSE]
            /\ areq' = [areq EXCEPT ![conc.a_user] = EmptyDir]
       ELSE UNCHANGED <<areq_isdir, areq>>
    /\ conc' = [conc EXCEPT !.a_pc = "mkd"]
    /\ UNCHANGED <<anno_isdir, anno, clock>>
    /\ ConcFrame

\* mkd(*basedir); annotation_requests = annotation_requests[::-1]
save_new_ar_for_user_mkd ==
    /\ conc.a_pc = "mkd"
    /\ areq_isdir' = [areq_isdir EXCEPT ![conc.a_user] = TRUE]
    /\ conc' = [conc EXCEPT !.a_pc = "save_json",
                            !.a_todo = InsertionOrder(conc.a_batch)]
    /\ UNCHANGED <<areq, anno_isdir, anno, clock>>
    /\ ConcFrame

\* One turn of the for loop: save_json(fname, req); time.sleep(1 / 100.)
save_new_ar_for_user_save_json ==
    /\ conc.a_pc = "save_json"
    /\ conc.a_todo # <<>>
    /\ areq' = [areq EXCEPT ![conc.a_user] =
                   SaveLoop(@, <<Head(conc.a_todo)>>, clock)]
    /\ clock' = clock + 1
    /\ conc' = [conc EXCEPT !.a_todo = Tail(@)]
    /\ UNCHANGED <<areq_isdir, anno_isdir, anno>>
    /\ ConcFrame

\* return _basedir
save_new_ar_for_user_return ==
    /\ conc.a_pc = "save_json"
    /\ conc.a_todo = <<>>
    /\ conc' = [conc EXCEPT !.a_pc = "done", !.a_ret = "basedir"]
    /\ UNCHANGED fsVars
    /\ ConcFrame

\* ar = fetch_ar(task_id, user_id, ar_id); if ar is not None: ... else None
annotate_ar_fetch_ar ==
    /\ conc.b_pc = "start"
    /\ conc.b_op = "annotate_ar"
    /\ LET ar == fetch_ar(conc.b_user, conc.b_ar_id)
       IN conc' = [conc EXCEPT !.b_ar = ar,
                               !.b_pc = IF ar # NoRequest THEN "mkf"
                                        ELSE "done"]
    /\ UNCHANGED fsVars
    /\ ConcFrame

\* mkf(*path): the annotator's annotation directory exists from here on.
annotate_ar_mkf ==
    /\ conc.b_pc = "mkf"
    /\ anno_isdir' = [anno_isdir EXCEPT ![conc.b_user] = TRUE]
    /\ conc' = [conc EXCEPT !.b_pc = "save_json"]
    /\ UNCHANGED <<areq_isdir, areq, anno, clock>>
    /\ ConcFrame

\* save_json(fname, {'req': ar, 'anno': annotation}); return fname
annotate_ar_save_json ==
    /\ conc.b_pc = "save_json"
    /\ anno' = WriteAnno(conc.b_user, conc.b_ar_id,
                         [req |-> conc.b_ar, anno |-> conc.b_annotation])
    /\ conc' = [conc EXCEPT !.b_pc = "done", !.b_ret = "fname"]
    /\ UNCHANGED <<areq_isdir, areq, anno_isdir, clock>>
    /\ ConcFrame

\* ar_all = fetch_all_ar(task_id, user_id)
get_next_ar_fetch_all_ar ==
    /\ conc.b_pc = "start"
    /\ conc.b_op = "get_next_ar"
    /\ \E ar_all \in fetch_all_ar(conc.b_user) :
           conc' = [conc EXCEPT !.b_ar_all = ar_all,
                                !.b_pc = "fetch_all_ar_ids"]
    /\ UNCHANGED fsVars
    /\ ConcFrame

\* fetch_all_ar(task_id, user_id) called on its own: the listing it returns.
fetch_all_ar_listing ==
    /\ conc.b_pc = "start"
    /\ conc.b_op = "fetch_all_ar"
    /\ \E ar_all \in fetch_all_ar(conc.b_user) :
           conc' = [conc EXCEPT !.b_ar_all = ar_all, !.b_pc = "done"]
    /\ UNCHANGED fsVars
    /\ ConcFrame

\* ar_done = set(fetch_all_ar_ids(task_id, user_id))
get_next_ar_fetch_all_ar_ids ==
    /\ conc.b_pc = "fetch_all_ar_ids"
    /\ conc' = [conc EXCEPT !.b_ar_done = fetch_all_ar_ids(conc.b_user),
                            !.b_pc = "scan"]
    /\ UNCHANGED fsVars
    /\ ConcFrame

\* The index lookup and the while loop of get_next_ar.
get_next_ar_scan ==
    /\ conc.b_pc = "scan"
    /\ LET r == NextResult(conc.b_ar_all, conc.b_ar_done, conc.b_ar_id)
       IN conc' = [conc EXCEPT !.b_ret = r.ret, !.b_raised = r.raised,
                               !.b_pc = "done"]
    /\ UNCHANGED fsVars
    /\ ConcFrame

(***************************************************************************)
(* _majority_label                                                         *)
(***************************************************************************)
\* Greatest number of labels handed to one _majority_label call.
MaxVotes == 3

\* AnnotationValue
POSITIVE == 1
NEGTIVE == -1
UNSURE == 0
NOT_ANNOTATED == -2

AnnotationValues == {POSITIVE, NEGTIVE, UNSURE, NOT_ANNOTATED}

\* The number of elements of s equal to x, as Counter(s)[x].
Count(s, x) == Cardinality({i \in 1..Len(s) : s[i] = x})

\* The position where x first occurs in s: the place of x in the insertion
\* order of Counter(s).
FirstSeen(s, x) == CHOOSE i \in 1..Len(s) : s[i] = x /\ \A j \in 1..(i - 1) : s[j] # x

\* Counter(s).most_common(): the distinct elements by decreasing count;
\* sorted is stable, so elements of equal count keep their insertion order.
most_common(s) ==
    CHOOSE p \in Perms({s[i] : i \in 1..Len(s)}) :
        \A i, j \in 1..Len(p) :
            i < j => \/ Count(s, p[i]) > Count(s, p[j])
                     \/ /\ Count(s, p[i]) = Count(s, p[j])
                        /\ FirstSeen(s, p[i]) < FirstSeen(s, p[j])

\* _majority_label counting the zeros as well.
MajorityLabel_KeepZeros(labels) ==
    IF Len(labels) > 0 THEN <<most_common(labels)[1]>> ELSE NoValue

\* labels = [x for x in labels if x != 0], then the first of most_common().
MajorityLabel(labels) ==
    LET nonzero == SelectSeq(labels, LAMBDA x : x # 0)
    IN IF Len(nonzero) > 0 THEN <<most_common(nonzero)[1]>> ELSE NoValue

_majority_label(labels) ==
    /\ pure_last' = PureCall("_majority_label", labels, <<>>, <<>>,
                             MajorityLabel(labels), <<>>, <<>>, None)
    /\ UNCHANGED <<fsVars, last, webVars, dbVars, moreVars, conc,
                    ca_table, ca_last>>

(***************************************************************************)
(* _exclude_unknowns_for_kappa_calculation                                 *)
(***************************************************************************)
\* Greatest length of a sequence of labeling results.
MaxLen == 3

\* The values of the labeling results of an annotator.
ResultValues == {POSITIVE, NEGTIVE, UNSURE}

\* The positions the for loop keeps, in order.
RECURSIVE KeptPositions(_, _, _)
KeptPositions(result_user1, result_user2, i) ==
    IF i > Len(result_user1)
    THEN <<>>
    ELSE IF result_user1[i] # 0 /\ result_user2[i] # 0
         THEN <<i>> \o KeptPositions(result_user1, result_user2, i + 1)
         ELSE KeptPositions(result_user1, result_user2, i + 1)

\* The loop dropping a position when both results there are unknown only.
ExcludeUnknowns_BothZero(result_user1, result_user2) ==
    IF Len(result_user1) # Len(result_user2)
    THEN [raised |-> "ValueError", r1 |-> <<>>, r2 |-> <<>>]
    ELSE LET kept == SelectSeq([i \in 1..Len(result_user1) |-> i],
                               LAMBDA i : result_user1[i] # 0
                                          \/ result_user2[i] # 0)
         IN [raised |-> None,
             r1 |-> [k \in 1..Len(kept) |-> result_user1[kept[k]]],
             r2 |-> [k \in 1..Len(kept) |-> result_user2[kept[k]]]]

ExcludeUnknowns(result_user1, result_user2) ==
    IF Len(result_user1) # Len(result_user2)
    THEN [raised |-> "ValueError", r1 |-> <<>>, r2 |-> <<>>]
    ELSE LET kept == KeptPositions(result_user1, result_user2, 1)
         IN [raised |-> None,
             r1 |-> [k \in 1..Len(kept) |-> result_user1[kept[k]]],
             r2 |-> [k \in 1..Len(kept) |-> result_user2[kept[k]]]]

_exclude_unknowns_for_kappa_calculation(result_user1, result_user2) ==
    /\ LET r == ExcludeUnknowns(result_user1, result_user2)
       IN pure_last' = PureCall("_exclude_unknowns_for_kappa_calculation",
                                <<>>, result_user1, result_user2, NoValue,
                                r.r1, r.r2, r.raised)
    /\ UNCHANGED <<fsVars, last, webVars, dbVars, moreVars, conc,
                    ca_table, ca_last>>

(***************************************************************************)
(* The classification_annotation table and majority_vote_annotations_query *)
(***************************************************************************)
\* Greatest number of rows of classification_annotation.
MaxAnnos == 3

Entities == {"e1", "e2"}

Labels == {"L1", "L2"}

Weights == {1, 2}

\* A row of classification_annotation; its id is its position in ca_table.
CaRow(user, entity, label, value, weight) ==
    [user |-> user, entity |-> entity, label |-> label, value |-> value,
     weight |-> weight]

\* The annotations the votes are taken over: every value and weight for one
\* entity under one label, two more votes for another entity, and one
\* annotation under another label.
VoteRows ==
    {CaRow("u1", "e1", "L1", v, w) : v \in AnnotationValues, w \in Weights}
    \cup {CaRow("u1", "e2", "L1", v, 1) : v \in {POSITIVE, NEGTIVE}}
    \cup {CaRow("u1", "e1", "L2", NEGTIVE, 2)}

\* Shape of the record kept in ca_last.
CaCall(op, label, rows, raw, matrix, stats, raised) ==
    [op |-> op, label |-> label, rows |-> rows, raw |-> raw,
     matrix |-> matrix, stats |-> stats, raised |-> raised]

\* The counts compute_annotation_statistics_db returns, before any call.
NoDbStats == [total_annotations |-> 0, total_distinct_annotations |-> 0,
              n_annotations_per_user |-> EmptyDir]

NoCaCall == CaCall("init", None, {}, EmptyDir, EmptyDir, NoDbStats, None)

\* dbsession.add(ClassificationAnnotation(...)); dbsession.commit()
add_classification_annotation(row) ==
    /\ Len(ca_table) < MaxAnnos
    /\ ca_table' = Append(ca_table, row)
    /\ ca_last' = CaCall("add", row.label, {}, EmptyDir, EmptyDir, NoDbStats,
                        None)
    /\ UNCHANGED <<fsVars, last, webVars, dbVars, moreVars, conc,
                    pure_last>>

\* func.sum(ClassificationAnnotation.weight) over the rows of ids.
RECURSIVE SumWeight(_)
SumWeight(ids) ==
    IF ids = {}
    THEN 0
    ELSE LET i == CHOOSE i \in ids : TRUE
         IN ca_table[i].weight + SumWeight(ids \ {i})

\* q1: entity, value and sum(weight) of the rows under the label whose
\* value is neither UNSURE nor NOT_ANNOTATED, grouped by entity and value.
weight_query(label) ==
    LET ids == {i \in 1..Len(ca_table) :
                  /\ ca_table[i].label = label
                  /\ ca_table[i].value # UNSURE
                  /\ ca_table[i].value # NOT_ANNOTATED}
    IN {[entity |-> ca_table[i].entity, value |-> ca_table[i].value,
         weight |-> SumWeight({j \in ids :
                                 /\ ca_table[j].entity = ca_table[i].entity
                                 /\ ca_table[j].value = ca_table[i].value})] :
          i \in ids}

\* q2 taking the value of any row of the group.
max_query_AnyRow(q1) ==
    {{f[e] : e \in DOMAIN f} :
       f \in {g \in [{r.entity : r \in q1} -> q1] :
                \A e \in DOMAIN g : g[e].entity = e}}

\* q2: entity, value and max(weight) grouped by entity. The value is a bare
\* column of an aggregate query: it comes from a row of the group that
\* holds the maximum, any of them when several do. The possible results.
max_query(q1) ==
    {{f[e] : e \in DOMAIN f} :
       f \in {g \in [{r.entity : r \in q1} -> q1] :
                \A e \in DOMAIN g :
                    /\ g[e].entity = e
                    /\ \A r \in q1 : r.entity = e
                                        => r.weight <= g[e].weight}}

\* distinct(q1.entity), q1.value, q1.weight of q1 joined with q2 on the
\* entity and the value.
JoinQuery(q1, q2) ==
    {r \in q1 : \E m \in q2 : r.entity = m.entity /\ r.value = m.value}

majority_vote_annotations_query(label) ==
    /\ \E q2 \in max_query(weight_query(label)) :
           ca_last' = CaCall("majority_vote_annotations_query", label,
                             JoinQuery(weight_query(label), q2), EmptyDir,
                             EmptyDir, NoDbStats, None)
    /\ UNCHANGED <<fsVars, last, webVars, dbVars, moreVars, conc,
                    ca_table, pure_last>>

\* The values annotated for an entity under a label, oldest first.
VotesOf(entity, label) ==
    LET ids == SelectSeq([i \in 1..Len(ca_table) |-> i],
                         LAMBDA i : /\ ca_table[i].entity = entity
                                    /\ ca_table[i].label = label)
    IN [k \in 1..Len(ids) |-> ca_table[ids[k]].value]

(***************************************************************************)
(* compute_annotation_statistics_db: the kappa matrix of a label           *)
(***************************************************************************)
\* Greatest length of a sequence handed to _compute_kappa_matrix directly.
MaxPairLen == 1

\* The usernames, in the order sorted() puts them.
UserNames == <<"u1", "u2", "u3">>

Rank(username) == CHOOSE i \in 1..Len(UserNames) : UserNames[i] = username

\* tuple(sorted([user_pair[0].username, user_pair[1].username]))
SortedPair(a, b) == IF Rank(a) < Rank(b) THEN <<a, b>> ELSE <<b, a>>

\* The annotations the agreement is taken over: two annotators with every
\* result on two contexts under one label, one of them with an annotation
\* under another label, and a third annotator.
KappaRows ==
    {CaRow(u, e, "L1", v, 1) : u \in {"u1", "u2"}, e \in Entities,
                               v \in ResultValues}
    \cup {CaRow("u3", e, "L1", POSITIVE, 1) : e \in Entities}
    \cup {CaRow("u2", "e1", "L2", NEGTIVE, 1)}

\* set([annotation.user for annotation in annotations])
distinct_users == {ca_table[i].user : i \in 1..Len(ca_table)}

\* user.classification_annotations: the ids of the user's rows.
classification_annotations(user) ==
    {i \in 1..Len(ca_table) : ca_table[i].user = user}

\* {annotation.context_id: annotation.value for annotation in ...}: the
\* dicts the comprehension can give. The relationship has no order_by, so
\* for a context annotated more than once any of the values can come last.
dict_of_context_value(user) ==
    {d \in [{ca_table[i].entity : i \in classification_annotations(user)}
              -> AnnotationValues] :
        \A c \in DOMAIN d :
            \E i \in classification_annotations(user) :
                ca_table[i].entity = c /\ ca_table[i].value = d[c]}

\* What a pair of the raw data holds: None, or the results of the first and
\* of the second user of the sorted pair.
NoOverlap == [overlap |-> FALSE, r1 |-> <<>>, r2 |-> <<>>]

\* The values of the two users on the contexts of intersection, or None.
SharedValues(d1, d2, intersection) ==
    IF Len(intersection) = 0
    THEN NoOverlap
    ELSE [overlap |-> TRUE,
          r1 |-> [k \in 1..Len(intersection) |-> d1[intersection[k]]],
          r2 |-> [k \in 1..Len(intersection) |-> d2[intersection[k]]]]

\* The possible results for the users of a sorted pair; list(intersection)
\* enumerates the set in any order.
_retrieve_annotation_with_same_context_shared_by_two_users(user1, user2) ==
    UNION {UNION {{SharedValues(d1, d2, intersection) :
                     intersection \in Perms(DOMAIN d1 \cap DOMAIN d2)} :
                    d2 \in dict_of_context_value(user2)} :
             d1 \in dict_of_context_value(user1)}

\* The possible raw data of a label: for every pair of distinct users, under
\* the sorted pair of their names, the annotations they share.
_construct_kappa_stats_raw_data(users, label_name) ==
    LET user_pairs == {SortedPair(a, b) : a \in users, b \in users} \
                          {<<a, a>> : a \in users}
    IN {raw \in [user_pairs -> UNION
                   {_retrieve_annotation_with_same_context_shared_by_two_users(
                        p[1], p[2]) : p \in user_pairs}] :
           \A p \in user_pairs :
               raw[p] \in
                 _retrieve_annotation_with_same_context_shared_by_two_users(
                     p[1], p[2])}

\* A kappa score as a fraction; the denominator 0 stands for nan.
Score(num, den) == [num |-> num, den |-> den]

RECURSIVE SumProducts(_, _, _)
SumProducts(y1, y2, classes) ==
    IF classes = {}
    THEN 0
    ELSE LET k == CHOOSE k \in classes : TRUE
         IN Count(y1, k) * Count(y2, k) + SumProducts(y1, y2, classes \ {k})

\* sklearn.metrics.cohen_kappa_score: (po - pe) / (1 - pe) with po the
\* share of positions where the two agree and pe the agreement expected
\* from the two marginal distributions; 0 / 0 when 1 - pe is 0, which
\* includes the empty sequences.
cohen_kappa_score(y1, y2) ==
    LET n == Len(y1)
        agree == Cardinality({i \in 1..n : y1[i] = y2[i]})
        chance == SumProducts(y1, y2, AnnotationValues)
    IN Score(n * agree - chance, n * n - chance)

\* One turn of the loop over the user pairs reading kappa_matrix[a][b] of
\* a pair without overlap, which the defaultdict creates as 0.0.
KappaEntries_ReadNoOverlap(user_pair, result_per_user) ==
    IF ~result_per_user.overlap
    THEN [raised |-> None,
          entries |-> [k \in {<<user_pair[1], user_pair[2]>>,
                              <<user_pair[2], user_pair[1]>>} |->
                          Score(0, 1)]]
    ELSE LET r == ExcludeUnknowns(result_per_user.r1, result_per_user.r2)
         IN IF r.raised # None
            THEN [raised |-> r.raised, entries |-> EmptyDir]
            ELSE [raised |-> None,
                  entries |->
                    [k \in {<<user_pair[1], user_pair[2]>>,
                            <<user_pair[2], user_pair[1]>>,
                            <<user_pair[1], user_pair[1]>>,
                            <<user_pair[2], user_pair[2]>>} |->
                       IF k[1] = k[2] THEN Score(1, 1)
                       ELSE cohen_kappa_score(r.r1, r.r2)]]

\* One turn of the loop setting kappa_matrix[a][b] without kappa_matrix[b][a].
KappaEntries_OneWay(user_pair, result_per_user) ==
    IF ~result_per_user.overlap
    THEN [raised |-> None, entries |-> EmptyDir]
    ELSE LET r == ExcludeUnknowns(result_per_user.r1, result_per_user.r2)
         IN IF r.raised # None
            THEN [raised |-> r.raised, entries |-> EmptyDir]
            ELSE [raised |-> None,
                  entries |->
                    [k \in {<<user_pair[1], user_pair[2]>>,
                            <<user_pair[1], user_pair[1]>>,
                            <<user_pair[2], user_pair[2]>>} |->
                       IF k[1] = k[2] THEN Score(1, 1)
                       ELSE cohen_kappa_score(r.r1, r.r2)]]

\* One turn of the loop setting the two diagonal entries to the score of
\* the pair.
KappaEntries_DiagonalScore(user_pair, result_per_user) ==
    IF ~result_per_user.overlap
    THEN [raised |-> None, entries |-> EmptyDir]
    ELSE LET r == ExcludeUnknowns(result_per_user.r1, result_per_user.r2)
         IN IF r.raised # None
            THEN [raised |-> r.raised, entries |-> EmptyDir]
            ELSE [raised |-> None,
                  entries |->
                    [k \in {<<user_pair[1], user_pair[2]>>,
                            <<user_pair[2], user_pair[1]>>,
                            <<user_pair[1], user_pair[1]>>,
                            <<user_pair[2], user_pair[2]>>} |->
                       cohen_kappa_score(r.r1, r.r2)]]

\* One turn of the loop over the user pairs: the entries it sets, or the
\* exception it raises.
KappaEntries(user_pair, result_per_user) ==
    IF ~result_per_user.overlap
    THEN [raised |-> None, entries |-> EmptyDir]
    ELSE LET r == ExcludeUnknowns(result_per_user.r1, result_per_user.r2)
         IN IF r.raised # None
            THEN [raised |-> r.raised, entries |-> EmptyDir]
            ELSE [raised |-> None,
                  entries |->
                    [k \in {<<user_pair[1], user_pair[2]>>,
                            <<user_pair[2], user_pair[1]>>,
                            <<user_pair[1], user_pair[1]>>,
                            <<user_pair[2], user_pair[2]>>} |->
                       IF k[1] = k[2] THEN Score(1, 1)
                       ELSE cohen_kappa_score(r.r1, r.r2)]]

\* The loop over the pairs not yet visited, from the matrix so far; an
\* exception ends the loop and the call, and no matrix is returned.
RECURSIVE KappaLoop(_, _, _)
KappaLoop(raw, todo, matrix) ==
    IF todo = {}
    THEN [raised |-> None, matrix |-> matrix]
    ELSE LET user_pair == CHOOSE p \in todo : TRUE
             turn == KappaEntries(user_pair, raw[user_pair])
         IN IF turn.raised # None
            THEN [raised |-> turn.raised, matrix |-> EmptyDir]
            ELSE KappaLoop(raw, todo \ {user_pair},
                           [k \in DOMAIN matrix \cup DOMAIN turn.entries |->
                              IF k \in DOMAIN turn.entries
                              THEN turn.entries[k] ELSE matrix[k]])

\* _compute_kappa_matrix on the raw data of one label: the nested dict
\* kappa_matrix[label], keyed by <<a, b>>, that the data frame is made of.
ComputeKappaMatrix(raw) == KappaLoop(raw, DOMAIN raw, EmptyDir)

_compute_kappa_matrix(label, raw) ==
    /\ LET r == ComputeKappaMatrix(raw)
       IN ca_last' = CaCall("_compute_kappa_matrix", label, {}, raw,
                            r.matrix, NoDbStats, r.raised)
    /\ UNCHANGED <<fsVars, last, webVars, dbVars, moreVars, conc,
                    ca_table, pure_last>>

\* _compute_total_annotations: the number of annotations under the label
\* per user, for the users that have one.
_compute_total_annotations(label_name) ==
    [u \in {ca_table[i].user : i \in {j \in 1..Len(ca_table) :
                                        ca_table[j].label = label_name}} |->
        Cardinality({i \in classification_annotations(u) :
                       ca_table[i].label = label_name})]

compute_annotation_statistics_db(label_name) ==
    /\ \E raw \in _construct_kappa_stats_raw_data(distinct_users,
                                                  label_name) :
         LET r == ComputeKappaMatrix(raw)
         IN ca_last' =
              CaCall("compute_annotation_statistics_db", label_name, {},
                     raw, r.matrix,
                     [total_annotations |->
                        Cardinality({i \in 1..Len(ca_table) :
                                       ca_table[i].label = label_name}),
                      total_distinct_annotations |-> Len(ca_table),
                      n_annotations_per_user |->
                        _compute_total_annotations(label_name)],
                     r.raised)
    /\ UNCHANGED <<fsVars, last, webVars, dbVars, moreVars, conc,
                    ca_table, pure_last>>

(***************************************************************************)
(* export_labeled_examples: the labelled examples of the annotations       *)
(***************************************************************************)
\* How many times the export is run in a behaviour.
MaxExports == 2

ExportIds == {"a", "b"}

ExportLabels == {"HEALTHCARE", "AI"}

\* The payload of a request that has no 'text'.
NoTextData == "no_text"

\* The annotations on file: any of the label keys, each with a vote.
ExportAnnotations ==
    {[labels |-> f] :
        f \in {g \in UNION {[S -> {1, -1, 0}] : S \in SUBSET ExportLabels} :
                 "AI" \in DOMAIN g => g["AI"] # -1}}

\* os.scandir yields the names of a directory in an order the file system
\* chooses; the order of the names stays as it is while nothing is written.
NameOrder == [users |-> <<"u1", "u2">>, ids |-> <<"a", "b", "c">>]

Scandir(order, names) == SelectSeq(order, LAMBDA x : x \in names)

NoExport == [op |-> "init", n |-> 0, annos |-> <<>>, final |-> <<>>]

\* anno['req']['data'].get('text') or '': the payload d stands for
\* {'text': d}, NoTextData for a payload without a text.
Text(data) == IF data = NoTextData THEN "" ELSE data

\* The keys of `labels` after step 1, in the order of insertion: the ar_ids
\* of the annotations that hold a label, by first appearance.
RECURSIVE LabelledIds(_)
LabelledIds(annos) ==
    IF annos = <<>>
    THEN <<>>
    ELSE LET init == LabelledIds(SubSeq(annos, 1, Len(annos) - 1))
             anno_ == annos[Len(annos)]
         IN  IF \/ DOMAIN anno_.anno.labels = {}
                \/ \E i \in 1..Len(init) : init[i] = anno_.req.ar_id
             THEN init
             ELSE Append(init, anno_.req.ar_id)

\* text[ar_id] after step 1: every annotation of ar_id assigns it again.
GatheredText(annos, ar_id) ==
    LET of == {i \in 1..Len(annos) : annos[i].req.ar_id = ar_id}
    IN  Text(annos[CHOOSE i \in of : \A j \in of : j <= i].req.data)

\* The keys of labels[ar_id] after step 1.
GatheredKeys(annos, ar_id) ==
    UNION {DOMAIN annos[i].anno.labels :
             i \in {j \in 1..Len(annos) : annos[j].req.ar_id = ar_id}}

\* labels[ar_id][label_key] after step 1: the values in the order gathered.
RECURSIVE GatheredValues(_, _, _)
GatheredValues(annos, ar_id, label_key) ==
    IF annos = <<>>
    THEN <<>>
    ELSE LET init == GatheredValues(SubSeq(annos, 1, Len(annos) - 1), ar_id,
                                    label_key)
             anno_ == annos[Len(annos)]
         IN  IF /\ anno_.req.ar_id = ar_id
                /\ label_key \in DOMAIN anno_.anno.labels
             THEN Append(init, anno_.anno.labels[label_key])
             ELSE init

\* Step 2 taking the first value gathered for a label as it is.
MergedLabels_FirstValue(annos, ar_id) ==
    [label_key \in GatheredKeys(annos, ar_id) |->
        GatheredValues(annos, ar_id, label_key)[1]]

\* new_labels[ar_id] of step 2: the labels whose majority is not None.
MergedLabels(annos, ar_id) ==
    [label_key \in
        {k \in GatheredKeys(annos, ar_id) :
            MajorityLabel(GatheredValues(annos, ar_id, k)) # NoValue} |->
        MajorityLabel(GatheredValues(annos, ar_id, label_key))[1]]

\* The export without the test len(labels[ar_id]) > 0 of step 3.
_export_distinct_labeled_examples_KeepEmpty(annos) ==
    LET kept == LabelledIds(annos)
    IN  [i \in 1..Len(kept) |->
            [text |-> GatheredText(annos, kept[i]),
             labels |-> MergedLabels(annos, kept[i])]]

\* Step 3: one record per ar_id that has a label left.
_export_distinct_labeled_examples(annos) ==
    LET kept == SelectSeq(LabelledIds(annos),
                          LAMBDA id : DOMAIN MergedLabels(annos, id) # {})
    IN  [i \in 1..Len(kept) |->
            [text |-> GatheredText(annos, kept[i]),
             labels |-> MergedLabels(annos, kept[i])]]

\* The annotations of the users in users, each user's files in turn.
RECURSIVE AnnotationsOf(_)
AnnotationsOf(users) ==
    IF users = <<>>
    THEN <<>>
    ELSE LET ar_ids == Scandir(dir_order.ids, fetch_all_ar_ids(users[1]))
         IN  [i \in 1..Len(ar_ids) |-> fetch_annotation(users[1], ar_ids[i])]
             \o AnnotationsOf(Tail(users))

annotations_iterator ==
    AnnotationsOf(Scandir(dir_order.users, _get_all_annotators_from_annotated))

_gather_distinct_labeled_examples ==
    _export_distinct_labeled_examples(annotations_iterator)

\* An export that moves the annotation files it has read out of the store.
export_labeled_examples_Consuming ==
    /\ exp_last.n < MaxExports
    /\ exp_last' = [op |-> "export_labeled_examples", n |-> exp_last.n + 1,
                    annos |-> annotations_iterator,
                    final |-> _gather_distinct_labeled_examples]
    /\ anno' = [u \in Users |-> EmptyDir]
    /\ UNCHANGED <<areq_isdir, areq, anno_isdir, clock>>
    /\ UNCHANGED <<last, webVars, dbVars, conc, ca_table, ca_last, pure_last,
                   dir_order, task_table, sessions>>

\* export_labeled_examples(task_id): outfile is None, nothing is written.
export_labeled_examples ==
    /\ exp_last.n < MaxExports
    /\ exp_last' = [op |-> "export_labeled_examples", n |-> exp_last.n + 1,
                    annos |-> annotations_iterator,
                    final |-> _gather_distinct_labeled_examples]
    /\ UNCHANGED <<fsVars, last, webVars, dbVars, conc, ca_table, ca_last,
                   pure_last, dir_order, task_table, sessions>>

(***************************************************************************)
(* get_or_create and the dummy annotation that marks a label               *)
(***************************************************************************)
\* Greatest number of save_labels_by_entity_type calls of one session.
MaxCalls == 2

\* The lists of labels handed to save_labels_by_entity_type.
LabelLists == {<<>>, <<"L1">>, <<"L2", "L1">>}

DUMMY_ENTITY == "__dummy__"

\* The database sessions, one per worker of the server.
Sessions == {"s1", "s2"}

\* ClassificationAnnotation(entity=DUMMY_ENTITY, entity_type=entity_type,
\* label=label, value=AnnotationValue.NOT_ANNOTATED): no user, and the
\* default of weight.
DummyRow(entity_type, label) ==
    [user |-> None, entity |-> DUMMY_ENTITY, entity_type |-> entity_type,
     label |-> label, value |-> NOT_ANNOTATED, weight |-> 1]

\* No instance yet, where the id of a row is expected.
NoInstance == 0

IdleSession == [pc |-> "idle", calls |-> 0, entity_type |-> None,
                labels |-> <<>>, todo |-> <<>>, instance |-> NoInstance,
                raised |-> None]

NoSessions == [s \in Sessions |-> IdleSession]

\* dbsession.query(model).filter_by(**read_kwargs): the ids of the rows
\* that match the four keyword arguments of create_dummy.
FilterBy(entity_type, label) ==
    {i \in 1..Len(ca_table) :
        ca_table[i] = DummyRow(entity_type, label)}

DummyFrame ==
    UNCHANGED <<fsVars, last, webVars, dbVars, conc, ca_last, pure_last,
                dir_order, exp_last, task_table>>

\* The session after one create_dummy of the loop has returned instance.
Returned(session, instance) ==
    [session EXCEPT !.instance = instance, !.todo = Tail(@),
                    !.pc = IF Tail(session.todo) = <<>> THEN "done"
                           ELSE "query"]

\* save_labels_by_entity_type(dbsession, entity_type, labels) is called.
save_labels_by_entity_type(s, entity_type, labels) ==
    /\ sessions[s].pc \in {"idle", "done"}
    /\ sessions[s].raised = None
    /\ sessions[s].calls < MaxCalls
    /\ sessions' = [sessions EXCEPT ![s] =
                       [pc |-> IF labels = <<>> THEN "done" ELSE "query",
                        calls |-> sessions[s].calls + 1,
                        entity_type |-> entity_type, labels |-> labels,
                        todo |-> labels, instance |-> NoInstance,
                        raised |-> None]]
    /\ UNCHANGED ca_table
    /\ DummyFrame

\* instance = dbsession.query(model).filter_by(**read_kwargs).one_or_none()
\* for the next label of the loop: the instance is returned if there is
\* one; one_or_none raises MultipleResultsFound on several rows, and
\* get_or_create rolls back and raises it again.
get_or_create_query(s) ==
    /\ sessions[s].pc = "query"
    /\ LET found == FilterBy(sessions[s].entity_type,
                             Head(sessions[s].todo))
       IN sessions' = [sessions EXCEPT ![s] =
             IF Cardinality(found) > 1
             THEN [@ EXCEPT !.pc = "done",
                            !.raised = "MultipleResultsFound"]
             ELSE IF found = {}
                  THEN [@ EXCEPT !.pc = "add"]
                  ELSE Returned(@, CHOOSE i \in found : TRUE)]
    /\ UNCHANGED ca_table
    /\ DummyFrame

\* instance = model(**kwargs); dbsession.add(instance); dbsession.commit()
get_or_create_commit(s) ==
    /\ sessions[s].pc = "add"
    /\ ca_table' = Append(ca_table, DummyRow(sessions[s].entity_type,
                                             Head(sessions[s].todo)))
    /\ sessions' = [sessions EXCEPT ![s] = Returned(@, Len(ca_table) + 1)]
    /\ DummyFrame

(***************************************************************************)
(* AnnotationRequest and its optional Task (db/model.py)                   *)
(***************************************************************************)
\* Task(name=..., default_params={}): the names of the tasks created.
TaskNames == {"My Task", "Other Task"}

\* The primary key the task table gives to its next row.
NextTaskId == ToString(Cardinality(task_table) + 1)

\* The record of a call that persisted a request: task is the task the
\* request was built with, task_id the column after the commit.
CreateCall(user, task, task_id) ==
    [op |-> "add AnnotationRequest", user |-> user, task_id |-> task_id,
     status |-> Pending, rows |-> <<>>, task |-> task]

\* Persisting a request gives it a Task of its own when it has none.
create_annotation_request_AlwaysTask(user, task, order) ==
    /\ db_next_id <= MaxRows
    /\ task_table' = task_table \cup
                        {[id |-> NextTaskId,
                          name |-> IF task = None THEN "My Task" ELSE task]}
    /\ ar_table' = ar_table \cup {[id |-> db_next_id, user |-> user,
                                   task_id |-> NextTaskId,
                                   status |-> Pending, order |-> order]}
    /\ db_next_id' = db_next_id + 1
    /\ db_last' = CreateCall(user, task, NextTaskId)
    /\ UNCHANGED <<fsVars, last, webVars, conc, ca_table, ca_last, pure_last,
                   dir_order, exp_last, sessions>>

\* req = AnnotationRequest(user=user, task=task, ...); dbsession.add(req);
\* dbsession.commit(), where task is None or a Task(name=task) that is not
\* in the database yet: relationship("Task") carries the add over to the
\* Task, its row is inserted and req.task_id is its id. status takes the
\* default of the column.
create_annotation_request(user, task, order) ==
    /\ db_next_id <= MaxRows
    /\ task_table' = IF task = None
                     THEN task_table
                     ELSE task_table \cup {[id |-> NextTaskId, name |-> task]}
    /\ ar_table' = ar_table \cup {[id |-> db_next_id, user |-> user,
                                   task_id |-> IF task = None THEN None
                                               ELSE NextTaskId,
                                   status |-> Pending, order |-> order]}
    /\ db_next_id' = db_next_id + 1
    /\ db_last' = CreateCall(user, task,
                             IF task = None THEN None ELSE NextTaskId)
    /\ UNCHANGED <<fsVars, last, webVars, conc, ca_table, ca_last, pure_last,
                   dir_order, exp_last, sessions>>

(***************************************************************************)
(* Specifications                                                          *)
(***************************************************************************)
\* Nothing exported, no task, no session at work.
InitMore ==
    /\ dir_order = NameOrder
    /\ exp_last = NoExport
    /\ task_table = {}
    /\ sessions = NoSessions

Init ==
    /\ areq_isdir = [u \in Users |-> FALSE]
    /\ areq = [u \in Users |-> EmptyDir]
    /\ anno_isdir = [u \in Users |-> FALSE]
    /\ anno = [u \in Users |-> EmptyDir]
    /\ clock = 0
    /\ last = NoCall
    /\ celery_queue = <<>>
    /\ job_status = {}
    /\ web_last = WebCall("init", None, None, None, None)
    /\ ar_table = {}
    /\ db_next_id = 1
    /\ db_last = DbCall("init", None, None, Pending, <<>>)
    /\ conc = NoConc
    /\ ca_table = <<>>
    /\ ca_last = NoCaCall
    /\ pure_last = NoPureCall
    /\ InitMore

\* The file store under the calls of one annotator.
Next ==
    \/ \E u \in Annotators, reqs \in SeqUpTo(Requests, MaxBatch),
          clean_existing \in BOOLEAN :
           save_new_ar_for_user(u, reqs, clean_existing)
    \/ \E u \in Annotators, ar_id \in ArIds \cup {UnknownId},
          annotation \in AnnotationInputs :
           annotate_ar(u, ar_id, annotation)
    \/ \E u \in Annotators, ar_id \in ArIds \cup {UnknownId} :
           get_next_ar(u, ar_id)
    \/ compute_annotation_statistics

Spec == Init /\ [][Next]_vars

\* The admin server's assign route.
NextAssign ==
    \E id \in TaskIds, entity_type \in EntityTypes \cup {None} :
        assign(id, entity_type)

SpecAssign == Init /\ [][NextAssign]_vars

\* The annotation_request table.
NextDb ==
    \/ \E user \in Users, task_id \in TaskIds, status \in Statuses,
          order \in Orders :
           add_annotation_request(user, task_id, status, order)
    \/ \E id \in 1..MaxRows, status \in Statuses :
           update_instance(id, status)
    \/ \E user \in Users, task_id \in TaskIds :
           delete_requests_for_user_under_task(user, task_id)
    \/ \E user \in Users, task_id \in TaskIds, status \in Statuses :
           fetch_ar_for_task(user, task_id, status)

SpecDb == Init /\ [][NextDb]_vars

\* The store before the two concurrent calls: annotator b holds the requests
\* b0, saved first, and has annotated those of done; annotator a holds a0.
ConcStore(a, b, a0, b0, done) ==
    LET fb == SaveLoop(EmptyDir, InsertionOrder(b0), 0)
        fa == SaveLoop(EmptyDir, InsertionOrder(a0), Len(b0))
    IN [areq_isdir |-> [u \in Users |-> IF u = a THEN a0 # <<>>
                                        ELSE b0 # <<>>],
        areq |-> [u \in Users |-> IF u = a THEN fa ELSE fb],
        anno_isdir |-> [u \in Users |-> u = b /\ done # {}],
        anno |-> [u \in Users |->
                    IF u = b
                    THEN [id \in done |->
                            [req |-> fb[id].req,
                             anno |-> [labels |->
                                         [l \in AnnoLabels |-> 1]]]]
                    ELSE EmptyDir],
        clock |-> Len(a0) + Len(b0)]

\* One save_new_ar_for_user for annotator a and one annotate_ar or
\* get_next_ar for annotator b, both about to start.
InitConc ==
    \E a \in Users, b \in Users,
       a0 \in {<<>>, <<OldRequest("a")>>},
       b0 \in {<<>>, <<OldRequest("a")>>,
               <<OldRequest("a"), OldRequest("b")>>},
       batch \in SeqUpTo(ConcRequests, MaxBatch),
       clean_existing \in BOOLEAN,
       op \in {"annotate_ar", "get_next_ar"},
       ar_id \in ConcArIds \cup {UnknownId},
       annotation \in AnnotationInputs :
      \E done \in SUBSET {b0[i].ar_id : i \in 1..Len(b0)} :
        LET st == ConcStore(a, b, a0, b0, done)
        IN /\ a # b
           /\ op = "get_next_ar" =>
                  annotation = [labels |-> [l \in AnnoLabels |-> 1]]
           /\ areq_isdir = st.areq_isdir
           /\ areq = st.areq
           /\ anno_isdir = st.anno_isdir
           /\ anno = st.anno
           /\ clock = st.clock
           /\ conc = [NoConc EXCEPT !.a_user = a, !.a_pc = "rmtree",
                                    !.a_clean = clean_existing,
                                    !.a_batch = batch,
                                    !.b_user = b, !.b_pc = "start",
                                    !.b_op = op, !.b_ar_id = ar_id,
                                    !.b_annotation = annotation,
                                    !.start = st]
           /\ last = NoCall
           /\ celery_queue = <<>>
           /\ job_status = {}
           /\ web_last = WebCall("init", None, None, None, None)
           /\ ar_table = {}
           /\ db_next_id = 1
           /\ db_last = DbCall("init", None, None, Pending, <<>>)
           /\ ca_table = <<>>
           /\ ca_last = NoCaCall
           /\ pure_last = NoPureCall
           /\ InitMore

NextConc ==
    \/ save_new_ar_for_user_rmtree
    \/ save_new_ar_for_user_mkd
    \/ save_new_ar_for_user_save_json
    \/ save_new_ar_for_user_return
    \/ annotate_ar_fetch_ar
    \/ annotate_ar_mkf
    \/ annotate_ar_save_json
    \/ get_next_ar_fetch_all_ar
    \/ get_next_ar_fetch_all_ar_ids
    \/ get_next_ar_scan

SpecConc == InitConc /\ [][NextConc]_vars

\* No file, no job and no annotation request yet.
InitFiles ==
    /\ areq_isdir = [u \in Users |-> FALSE]
    /\ areq = [u \in Users |-> EmptyDir]
    /\ anno_isdir = [u \in Users |-> FALSE]
    /\ anno = [u \in Users |-> EmptyDir]
    /\ clock = 0
    /\ last = NoCall
    /\ celery_queue = <<>>
    /\ job_status = {}
    /\ web_last = WebCall("init", None, None, None, None)
    /\ ar_table = {}
    /\ db_next_id = 1
    /\ db_last = DbCall("init", None, None, Pending, <<>>)
    /\ conc = NoConc
    /\ InitMore

\* A list function has been called on some short lists.
InitPure ==
    /\ pure_last \in
          {PureCall("call _majority_label", labels, <<>>, <<>>, NoValue,
                    <<>>, <<>>, None) :
             labels \in SeqUpTo(AnnotationValues, MaxVotes)}
          \cup
          {PureCall("call _exclude_unknowns_for_kappa_calculation", <<>>,
                    rs[1], rs[2], NoValue, <<>>, <<>>, None) :
             rs \in SeqUpTo(ResultValues, MaxLen)
                      \X SeqUpTo(ResultValues, MaxLen)}
    /\ InitFiles
    /\ ca_table = <<>>
    /\ ca_last = NoCaCall

\* The function runs and returns.
NextPure ==
    \/ /\ pure_last.op = "call _majority_label"
       /\ _majority_label(pure_last.labels)
    \/ /\ pure_last.op = "call _exclude_unknowns_for_kappa_calculation"
       /\ _exclude_unknowns_for_kappa_calculation(pure_last.r1,
                                                  pure_last.r2)

SpecPure == InitPure /\ [][NextPure]_vars

\* The votes on entities: annotations arrive, and the consensus is taken by
\* the query and by _majority_label over the values of one entity.
NextVote ==
    \/ \E row \in VoteRows : add_classification_annotation(row)
    \/ \E label \in Labels : majority_vote_annotations_query(label)
    \/ \E entity \in Entities : _majority_label(VotesOf(entity, "L1"))

SpecVote == Init /\ [][NextVote]_vars

\* The agreement of the annotators: annotations arrive, and the statistics
\* of a label are computed.
NextKappa ==
    \/ \E row \in KappaRows : add_classification_annotation(row)
    \/ \E label_name \in Labels : compute_annotation_statistics_db(label_name)

SpecKappa == Init /\ [][NextKappa]_vars

\* The raw data of two pairs handed to _compute_kappa_matrix.
MatrixPairs == {<<"u1", "u2">>, <<"u2", "u3">>}

PairData ==
    {NoOverlap}
    \cup {[overlap |-> TRUE, r1 |-> rs[1], r2 |-> rs[2]] :
            rs \in SeqUpTo(ResultValues, MaxPairLen)
                     \X SeqUpTo(ResultValues, MaxPairLen)}

\* _compute_kappa_matrix has been called on the raw data of one label.
InitMatrix ==
    /\ ca_last \in {CaCall("call _compute_kappa_matrix", "L1", {}, raw,
                           EmptyDir, NoDbStats, None) :
                      raw \in [MatrixPairs -> PairData]}
    /\ InitFiles
    /\ ca_table = <<>>
    /\ pure_last = NoPureCall

NextMatrix ==
    /\ ca_last.op = "call _compute_kappa_matrix"
    /\ _compute_kappa_matrix(ca_last.label, ca_last.raw)

SpecMatrix == InitMatrix /\ [][NextMatrix]_vars

\* The annotation file of ar_id, if there is one: the request as it was
\* when annotated and the annotation.
ExportCell(ar_id, payloads) ==
    {NoRecord} \cup {[req |-> [ar_id |-> ar_id, data |-> d], anno |-> a] :
                       d \in payloads, a \in ExportAnnotations}

AnnoDir(cells) ==
    [id \in {i \in DOMAIN cells : cells[i] # NoRecord} |-> cells[id]]

\* A store in which two annotators have annotated: u1 the requests a and b,
\* u2 the request a, each or not; the requests are still on file.
InitExport ==
    \E c1a \in ExportCell("a", {"d1"}),
       c1b \in ExportCell("b", {NoTextData}),
       c2a \in ExportCell("a", {"d1", "d2"}),
       users \in Perms(Users), ids \in Perms(ExportIds) :
      LET files == [u \in Users |->
                      IF u = "u1"
                      THEN AnnoDir([id \in ExportIds |->
                                       IF id = "a" THEN c1a ELSE c1b])
                      ELSE AnnoDir([id \in {"a"} |-> c2a])]
      IN  /\ anno = files
          /\ anno_isdir = [u \in Users |-> DOMAIN files[u] # {}]
          /\ areq = [u \in Users |->
                       [id \in DOMAIN files[u] |->
                           [req |-> files[u][id].req,
                            ctime |-> IF id = "a" THEN 1 ELSE 0]]]
          /\ areq_isdir = [u \in Users |-> DOMAIN files[u] # {}]
          /\ clock = 2
          /\ last = NoCall
          /\ celery_queue = <<>>
          /\ job_status = {}
          /\ web_last = WebCall("init", None, None, None, None)
          /\ ar_table = {}
          /\ db_next_id = 1
          /\ db_last = DbCall("init", None, None, Pending, <<>>)
          /\ conc = NoConc
          /\ ca_table = <<>>
          /\ ca_last = NoCaCall
          /\ pure_last = NoPureCall
          /\ dir_order = [users |-> users, ids |-> ids]
          /\ exp_last = NoExport
          /\ task_table = {}
          /\ sessions = NoSessions

NextExport == export_labeled_examples

SpecExport == InitExport /\ [][NextExport]_vars

\* Requests are persisted, with a new Task or without one.
NextTask ==
    \E user \in Users, task \in TaskNames \cup {None}, order \in Orders :
        create_annotation_request(user, task, order)

SpecTask == Init /\ [][NextTask]_vars

\* The annotator's requests have just been saved from a batch, and nothing
\* is annotated.
InitWork ==
    \E batch \in SeqUpTo(Requests, MaxBatch) \ {<<>>} :
        /\ areq_isdir = [u \in Users |-> u = "u1"]
        /\ areq = [u \in Users |->
                     IF u = "u1"
                     THEN SaveLoop(EmptyDir, InsertionOrder(batch), 0)
                     ELSE EmptyDir]
        /\ anno_isdir = [u \in Users |-> FALSE]
        /\ anno = [u \in Users |-> EmptyDir]
        /\ clock = Len(batch)
        /\ last = Call("save_new_ar_for_user", "u1", None, TRUE, batch,
                       NoAnnotation, "basedir", <<>>, 0, None)
        /\ celery_queue = <<>>
        /\ job_status = {}
        /\ web_last = WebCall("init", None, None, None, None)
        /\ ar_table = {}
        /\ db_next_id = 1
        /\ db_last = DbCall("init", None, None, Pending, <<>>)
        /\ conc = NoConc
        /\ ca_table = <<>>
        /\ ca_last = NoCaCall
        /\ pure_last = NoPureCall
        /\ InitMore

\* The work loop of the annotator: ask for the next request with the id
\* received last, at first with an id that is not in the list; annotate the
\* request received; stop when None is received.
NextWork ==
    \/ /\ last.op = "save_new_ar_for_user"
       /\ get_next_ar("u1", UnknownId)
    \/ /\ last.op = "get_next_ar"
       /\ last.raised = None
       /\ last.ret # None
       /\ \E annotation \in AnnotationInputs :
             annotate_ar("u1", last.ret, annotation)
    \/ /\ last.op = "annotate_ar"
       /\ get_next_ar("u1", last.ar_id)

SpecWork == InitWork /\ [][NextWork]_vars

\* save_new_ar_for_user(clean_existing=True) for an annotator who holds the
\* requests of old, and a fetch_all_ar or get_next_ar for the same
\* annotator, both about to start.
InitSame ==
    \E old \in {<<OldRequest("a")>>, <<OldRequest("a"), OldRequest("b")>>},
       batch \in SeqUpTo(ConcRequests, MaxBatch),
       op \in {"fetch_all_ar", "get_next_ar"},
       ar_id \in ConcArIds \cup {UnknownId} :
      \E done \in SUBSET {old[i].ar_id : i \in 1..Len(old)} :
        LET st == ConcStore("u2", "u1", <<>>, old, done)
        IN /\ op = "fetch_all_ar" => ar_id = UnknownId
           /\ areq_isdir = st.areq_isdir
           /\ areq = st.areq
           /\ anno_isdir = st.anno_isdir
           /\ anno = st.anno
           /\ clock = st.clock
           /\ conc = [NoConc EXCEPT !.a_user = "u1", !.a_pc = "rmtree",
                                    !.a_clean = TRUE,
                                    !.a_batch = batch,
                                    !.b_user = "u1", !.b_pc = "start",
                                    !.b_op = op, !.b_ar_id = ar_id,
                                    !.start = st]
           /\ last = NoCall
           /\ celery_queue = <<>>
           /\ job_status = {}
           /\ web_last = WebCall("init", None, None, None, None)
           /\ ar_table = {}
           /\ db_next_id = 1
           /\ db_last = DbCall("init", None, None, Pending, <<>>)
           /\ ca_table = <<>>
           /\ ca_last = NoCaCall
           /\ pure_last = NoPureCall
           /\ InitMore

NextSame ==
    \/ save_new_ar_for_user_rmtree
    \/ save_new_ar_for_user_mkd
    \/ save_new_ar_for_user_save_json
    \/ save_new_ar_for_user_return
    \/ fetch_all_ar_listing
    \/ get_next_ar_fetch_all_ar
    \/ get_next_ar_fetch_all_ar_ids
    \/ get_next_ar_scan

SpecSame == InitSame /\ [][NextSame]_vars

\* The workers of the server save the labels of entity types, each in its
\* own session.
NextDummy ==
    \/ \E s \in Sessions, entity_type \in EntityTypes,
          labels \in LabelLists :
           save_labels_by_entity_type(s, entity_type, labels)
    \/ \E s \in Sessions : get_or_create_query(s)
    \/ \E s \in Sessions : get_or_create_commit(s)

SpecDummy == Init /\ [][NextDummy]_vars

(***************************************************************************)
(* Properties of the file store                                            *)
(***************************************************************************)
Min(S) == CHOOSE x \in S : \A y \in S : x <= y

InList(list, x) == \E i \in 1..Len(list) : list[i] = x

\* The 1-based position of x in a list without repetitions.
Pos(list, x) == CHOOSE i \in 1..Len(list) : list[i] = x

\* The 1-based position k places after position p, going round the ring.
RingPos(list, p, k) == ((p - 1 + k) % Len(list)) + 1

\* The positions of a list whose request user u has not annotated.
PendingPositions(list, u) ==
    {i \in 1..Len(list) : list[i] \notin fetch_all_ar_ids(u)}

\* C1: called with an ar_id that is not in the request list, get_next_ar
\* returns the first request of the list, position 0 included, that the
\* annotator has not annotated.
C1_UnknownIdStartsAtFirst ==
    (/\ last.op = "get_next_ar"
     /\ ~InList(last.list, last.ar_id)
     /\ PendingPositions(last.list, last.user) # {})
    => last.ret = last.list[Min(PendingPositions(last.list, last.user))]

\* C2: called with the ar_id at index i, get_next_ar returns the id at the
\* first of the indexes i+1, i+2, ... (wrapping once, stopping before i)
\* whose request is not annotated; what it returns is in the list and is not
\* annotated.
C2_KnownIdNextPendingInRing ==
    (last.op = "get_next_ar" /\ InList(last.list, last.ar_id))
    => LET list == last.list
           p == Pos(list, last.ar_id)
           done == fetch_all_ar_ids(last.user)
           hits == {k \in 1..(Len(list) - 1) :
                        list[RingPos(list, p, k)] \notin done}
       IN /\ last.raised = None
          /\ hits # {} => last.ret = list[RingPos(list, p, Min(hits))]
          /\ hits = {} => last.ret = None
          /\ last.ret # None => InList(list, last.ret) /\ last.ret \notin done

C2_Witness ==
    /\ last.op = "get_next_ar"
    /\ Len(last.list) = 3
    /\ last.ar_id = last.list[2]
    /\ last.list[3] \in fetch_all_ar_ids(last.user)
    /\ last.ret = last.list[1]

\* C3: over a non-empty list whose requests are all annotated, get_next_ar
\* ends within one pass over the list and returns None, whatever ar_id is.
C3_AllAnnotatedReturnsNone ==
    (/\ last.op = "get_next_ar"
     /\ Len(last.list) > 0
     /\ PendingPositions(last.list, last.user) = {})
    => /\ last.ret = None
       /\ last.raised = None
       /\ last.iters <= Len(last.list)

C3_Witness ==
    /\ last.op = "get_next_ar"
    /\ Len(last.list) = 3
    /\ PendingPositions(last.list, last.user) = {}
    /\ last.ar_id = last.list[2]
    /\ last.iters = 2
    /\ last.ret = None

\* C4: with no request at all (missing or empty request directory)
\* get_next_ar returns None and does not fail.
C4_NoRequestsReturnsNone ==
    (last.op = "get_next_ar" /\ Len(last.list) = 0)
    => (last.ret = None /\ last.raised = None)

\* C5: an ar_id that has been annotated stays Complete: its annotation is
\* never removed, get_next_ar never returns it, and the statistics never
\* count it as outstanding, also after its request has been saved again.
C5_StaysComplete ==
    \A u \in Users : fetch_all_ar_ids(u) \subseteq fetch_all_ar_ids(u)'

C5_NeverServedAgain ==
    last.op = "get_next_ar" => last.ret \notin fetch_all_ar_ids(last.user)

C5_NeverOutstanding ==
    last.op = "compute_annotation_statistics"
    => LET n_out == last.stats.n_outstanding_requests_per_user
       IN /\ \A u \in DOMAIN n_out :
                n_out[u] + Cardinality(RequestedIds(u)
                                           \cap fetch_all_ar_ids(u))
                    = Cardinality(RequestedIds(u))
          /\ \A u \in Users \ DOMAIN n_out : RequestedIds(u) = {}
          /\ last.stats.total_outstanding_requests = SumOver(n_out, DOMAIN n_out)

C5_CompleteNeverResurrected ==
    [][C5_StaysComplete /\ C5_NeverServedAgain' /\ C5_NeverOutstanding']_vars

\* An annotated request was saved again with another payload, and the scan
\* went over it.
C5_Witness ==
    /\ last.op = "get_next_ar"
    /\ last.ret # None
    /\ \E id \in fetch_all_ar_ids(last.user) :
          /\ InList(last.list, id)
          /\ areq[last.user][id].req # anno[last.user][id].req
          /\ areq[last.user][id].ctime > 0

\* C6: annotate_ar for an ar_id without a request returns None and leaves
\* the annotations and the requests as they were.
C6_AnnotateWithoutRequestPersistsNothing ==
    [][\A u \in Users, id \in ArIds \cup {UnknownId} :
          (/\ last'.op = "annotate_ar"
           /\ last'.user = u
           /\ last'.ar_id = id
           /\ fetch_ar(u, id) = NoRequest)
          => /\ last'.ret = None
             /\ UNCHANGED <<areq_isdir, areq, anno_isdir, anno>>]_vars

C6_Witness ==
    /\ last.op = "annotate_ar"
    /\ last.ret = None
    /\ last.ar_id \in ArIds
    /\ DOMAIN areq[last.user] # {}
    /\ DOMAIN anno[last.user] # {}

\* C7: after annotate_ar for an existing request, fetch_all_ar_ids lists the
\* ar_id and fetch_annotation returns the request as it was stored together
\* with the submitted annotation.
C7_AnnotateStoresRequestAndAnnotation ==
    [][\A u \in Users, id \in ArIds \cup {UnknownId} :
          (/\ last'.op = "annotate_ar"
           /\ last'.user = u
           /\ last'.ar_id = id
           /\ fetch_ar(u, id) # NoRequest)
          => /\ last'.ret # None
             /\ id \in fetch_all_ar_ids(u)'
             /\ fetch_annotation(u, id)'
                    = [req |-> fetch_ar(u, id), anno |-> last'.annotation]
             /\ fetch_ar(u, id)' = fetch_ar(u, id)]_vars

C7_Witness ==
    /\ last.op = "annotate_ar"
    /\ last.ret = "fname"
    /\ fetch_annotation(last.user, last.ar_id).anno = last.annotation
    /\ fetch_annotation(last.user, last.ar_id).req.data = "d2"
    /\ Cardinality(fetch_all_ar_ids(last.user)) = 2

\* The ar_ids of a batch.
BatchIds(batch) == {batch[i].ar_id : i \in 1..Len(batch)}

\* The place of the last write of x's file in the sequence of writes w.
LastWrite(w, x) ==
    CHOOSE i \in 1..Len(w) :
        w[i].ar_id = x /\ \A j \in (i + 1)..Len(w) : w[j].ar_id # x

\* C8: fetch_all_ar lists the most recently written request first: after a
\* save the requests of the batch come before the older ones that were not
\* rewritten, and among themselves in the reverse of the order in which
\* their files were written (the batch is written last element first).
C8_ListedMostRecentFirst ==
    /\ \A u \in Users : \A list \in fetch_all_ar(u) :
          \A i, j \in 1..Len(list) :
              i < j => areq[u][list[i]].ctime > areq[u][list[j]].ctime
    /\ last.op = "save_new_ar_for_user"
       => \A list \in fetch_all_ar(last.user) :
            LET written == Reverse(last.batch)
                new == BatchIds(last.batch)
            IN /\ \A x \in new : InList(list, x)
               /\ \A x \in new, y \in DOMAIN areq[last.user] \ new :
                      Pos(list, x) < Pos(list, y)
               /\ \A x, y \in new :
                      LastWrite(written, x) < LastWrite(written, y)
                          => Pos(list, y) < Pos(list, x)

C8_Witness ==
    /\ last.op = "save_new_ar_for_user"
    /\ ~last.clean
    /\ Len(last.batch) = 2
    /\ Cardinality(BatchIds(last.batch)) = 2
    /\ Cardinality(DOMAIN areq[last.user]) = 3
    /\ \E list \in fetch_all_ar(last.user) :
          list[1] = last.batch[1].ar_id /\ list[2] = last.batch[2].ar_id

(***************************************************************************)
(* Properties of the assign route and of the annotation_request table      *)
(***************************************************************************)
\* C9: assign without an entity type fails with an invalid-input error
\* before anything else: no job is handed to celery, no job status is
\* created and no request is written.
C9_AssignWithoutEntityTypeFailsFirst ==
    [][(web_last'.op = "assign" /\ web_last'.entity_type = None)
       => /\ web_last'.raised = "ValueError"
          /\ UNCHANGED <<celery_queue, job_status>>
          /\ UNCHANGED <<fsVars, ar_table, db_next_id>>]_vars

C9_Witness ==
    /\ web_last.op = "assign"
    /\ web_last.entity_type = None
    /\ web_last.raised = "ValueError"
    /\ Len(celery_queue) = 2
    /\ Cardinality(job_status) = 2

\* C10: fetch_ar_for_task with the default status returns exactly the
\* Pending requests of the user and the task, each once, lower order first;
\* no Stale or Complete request is in the result.
C10_FetchReturnsPendingInOrder ==
    (db_last.op = "fetch_ar_for_task" /\ db_last.status = Pending)
    => LET rows == db_last.rows
       IN /\ {rows[i] : i \in 1..Len(rows)}
                = {r \in ar_table : /\ r.user = db_last.user
                                    /\ r.task_id = db_last.task_id
                                    /\ r.status = Pending}
          /\ \A i, j \in 1..Len(rows) : i < j => rows[i] # rows[j]
          /\ \A i, j \in 1..Len(rows) : i < j => rows[i].order <= rows[j].order
          /\ \A i \in 1..Len(rows) : rows[i].status \notin {Stale, Complete}

\* Two Pending requests come back against the order of their insertion.
C10_Witness ==
    /\ db_last.op = "fetch_ar_for_task"
    /\ db_last.status = Pending
    /\ Len(db_last.rows) = 2
    /\ db_last.rows[1].order < db_last.rows[2].order
    /\ db_last.rows[1].id > db_last.rows[2].id

(***************************************************************************)
(* Properties of concurrent calls for different annotators                 *)
(***************************************************************************)
\* The file store as one value.
Store ==
    [areq_isdir |-> areq_isdir, areq |-> areq, anno_isdir |-> anno_isdir,
     anno |-> anno, clock |-> clock]

\* The store after save_new_ar_for_user ran alone on the store st.
SerialSave(st, u, batch, clean) ==
    [st EXCEPT !.areq_isdir = [st.areq_isdir EXCEPT ![u] = TRUE],
               !.areq = [st.areq EXCEPT ![u] =
                            SaveLoop(IF clean /\ st.areq_isdir[u]
                                     THEN EmptyDir ELSE st.areq[u],
                                     InsertionOrder(batch), st.clock)],
               !.clock = st.clock + Len(batch)]

\* The stores and results annotate_ar or get_next_ar can give when it runs
\* alone on the store st.
SerialOther(st, u, op, ar_id, annotation) ==
    IF op = "annotate_ar"
    THEN IF ar_id \in DOMAIN st.areq[u]
         THEN {[store |->
                  [st EXCEPT
                     !.anno_isdir = [st.anno_isdir EXCEPT ![u] = TRUE],
                     !.anno = [st.anno EXCEPT ![u] =
                                 [id \in DOMAIN st.anno[u] \cup {ar_id} |->
                                    IF id = ar_id
                                    THEN [req |-> st.areq[u][ar_id].req,
                                          anno |-> annotation]
                                    ELSE st.anno[u][id]]]],
                b_ret |-> "fname", b_raised |-> None]}
         ELSE {[store |-> st, b_ret |-> None, b_raised |-> None]}
    ELSE {[store |-> st, b_ret |-> r.ret, b_raised |-> r.raised] :
            r \in {NextResult(l, IF st.anno_isdir[u] THEN DOMAIN st.anno[u]
                                 ELSE {}, ar_id) :
                     l \in IF st.areq_isdir[u]
                           THEN SortedByCtimeDesc(st.areq[u])
                           ELSE {<<>>}}}

\* The outcomes of the two calls of conc run one after the other, in either
\* order.
SerialOutcomes ==
    LET c == conc
        saved == SerialSave(c.start, c.a_user, c.a_batch, c.a_clean)
    IN SerialOther(saved, c.b_user, c.b_op, c.b_ar_id, c.b_annotation)
       \cup {[o EXCEPT !.store = SerialSave(o.store, c.a_user, c.a_batch,
                                            c.a_clean)] :
               o \in SerialOther(c.start, c.b_user, c.b_op, c.b_ar_id,
                                 c.b_annotation)}

C11_SerialOutcome ==
    (conc.a_pc = "done" /\ conc.b_pc = "done")
    => [store |-> Store, b_ret |-> conc.b_ret, b_raised |-> conc.b_raised]
           \in SerialOutcomes

C11_OtherAnnotatorUntouched ==
    \A b \in Users :
        (b = conc.b_user /\ (conc.a_pc # conc'.a_pc
                             \/ conc.a_todo # conc'.a_todo))
        => /\ areq_isdir'[b] = areq_isdir[b]
           /\ areq'[b] = areq[b]
           /\ anno_isdir'[b] = anno_isdir[b]
           /\ anno'[b] = anno[b]

\* C11: when save_new_ar_for_user for annotator A is interleaved, file
\* system call by file system call, with annotate_ar or get_next_ar for
\* another annotator B, what B's call returns and the store the two calls
\* leave equal the outcome of running the two calls one after the other,
\* and no step of A's call changes B's requests or annotations.
C11_DifferentAnnotatorsDoNotInterfere ==
    []C11_SerialOutcome /\ [][C11_OtherAnnotatorUntouched]_vars

\* Both calls have returned; A's call removed its old request and wrote new
\* ones over ar_ids B holds too, after B's call had started, and B's call
\* wrote an annotation or returned a request.
C11_Witness ==
    /\ conc.a_pc = "done"
    /\ conc.b_pc = "done"
    /\ conc.a_clean
    /\ conc.start.areq_isdir[conc.a_user]
    /\ Len(conc.a_batch) = MaxBatch
    /\ conc.b_ret # None
    /\ conc.b_ar_id \in DOMAIN areq[conc.a_user]
    /\ areq[conc.a_user] # areq[conc.b_user]

(***************************************************************************)
(* Properties of the consensus of labels                                   *)
(***************************************************************************)
\* C12: _majority_label gives None for the empty list and for a list of
\* zeros only; for a list holding a 1 or a -1 it gives neither None nor 0.
C12_ZerosGiveNoneOthersNeverNoneNorZero ==
    pure_last.op = "_majority_label"
    => LET labels == pure_last.labels
       IN /\ (\A i \in 1..Len(labels) : labels[i] = 0)
                 => pure_last.ret = NoValue
          /\ (\E i \in 1..Len(labels) : labels[i] \in {1, -1})
                 => (pure_last.ret # NoValue /\ pure_last.ret # <<0>>)

\* A list where the zeros outnumber every other value has a consensus.
C12_Witness ==
    /\ pure_last.op = "_majority_label"
    /\ Len(pure_last.labels) = MaxVotes
    /\ Count(pure_last.labels, 0) > Count(pure_last.labels, 1)
    /\ Count(pure_last.labels, 1) > 0
    /\ pure_last.ret = <<1>>

\* The summed weight of the annotations of an entity with a value under a
\* label.
SummedWeight(label, entity, value) ==
    SumWeight({i \in 1..Len(ca_table) : /\ ca_table[i].label = label
                                        /\ ca_table[i].entity = entity
                                        /\ ca_table[i].value = value})

\* The values of an entity under a label that count as votes.
VoteValues(label, entity) ==
    {ca_table[i].value : i \in {j \in 1..Len(ca_table) :
                                  /\ ca_table[j].label = label
                                  /\ ca_table[j].entity = entity
                                  /\ ca_table[j].value # UNSURE
                                  /\ ca_table[j].value # NOT_ANNOTATED}}

\* C13: NOT_ANNOTATED never votes: _majority_label and
\* majority_vote_annotations_query never return it, the consensus is the
\* one of the input without its NOT_ANNOTATED records, and an input of 0 and
\* NOT_ANNOTATED only has no consensus.
C13_NotAnnotatedNeverVotes ==
    /\ pure_last.op = "_majority_label"
       => LET labels == pure_last.labels
          IN /\ pure_last.ret # <<NOT_ANNOTATED>>
             /\ pure_last.ret
                   = MajorityLabel(SelectSeq(labels,
                                             LAMBDA x : x # NOT_ANNOTATED))
             /\ (\A i \in 1..Len(labels) :
                     labels[i] \in {UNSURE, NOT_ANNOTATED})
                    => pure_last.ret = NoValue
    /\ ca_last.op = "majority_vote_annotations_query"
       => /\ \A r \in ca_last.rows :
                /\ r.value # NOT_ANNOTATED
                /\ r.value \in VoteValues(ca_last.label, r.entity)
                /\ \A v \in VoteValues(ca_last.label, r.entity) :
                       SummedWeight(ca_last.label, r.entity, v) <= r.weight
          /\ \A e \in Entities :
                VoteValues(ca_last.label, e) = {}
                    => \A r \in ca_last.rows : r.entity # e

\* C14: among the values tied for the greatest count (_majority_label) or
\* the greatest summed weight (majority_vote_annotations_query), the
\* consensus is the one seen first in the input.
C14_TieGoesToFirstSeen ==
    /\ (pure_last.op = "_majority_label" /\ pure_last.ret # NoValue)
       => LET votes == SelectSeq(pure_last.labels, LAMBDA x : x # 0)
              tied == {v \in {votes[i] : i \in 1..Len(votes)} :
                         \A i \in 1..Len(votes) :
                             Count(votes, votes[i]) <= Count(votes, v)}
          IN \E v \in tied :
                /\ pure_last.ret = <<v>>
                /\ \A w \in tied : FirstSeen(votes, v) <= FirstSeen(votes, w)
    /\ ca_last.op = "majority_vote_annotations_query"
       => \A r \in ca_last.rows :
             LET votes == SelectSeq(VotesOf(r.entity, ca_last.label),
                                    LAMBDA x : x # UNSURE
                                               /\ x # NOT_ANNOTATED)
                 tied == {v \in VoteValues(ca_last.label, r.entity) :
                            \A w \in VoteValues(ca_last.label, r.entity) :
                                SummedWeight(ca_last.label, r.entity, w)
                                   <= SummedWeight(ca_last.label, r.entity, v)}
             IN /\ r.value \in tied
                /\ \A w \in tied :
                       FirstSeen(votes, r.value) <= FirstSeen(votes, w)

\* The part of C14 about _majority_label alone.
C14_MajorityLabelTieGoesToFirstSeen ==
    (pure_last.op = "_majority_label" /\ pure_last.ret # NoValue)
    => LET votes == SelectSeq(pure_last.labels, LAMBDA x : x # 0)
           tied == {v \in {votes[i] : i \in 1..Len(votes)} :
                      \A i \in 1..Len(votes) :
                          Count(votes, votes[i]) <= Count(votes, v)}
       IN \E v \in tied :
             /\ pure_last.ret = <<v>>
             /\ \A w \in tied : FirstSeen(votes, v) <= FirstSeen(votes, w)

\* C15: majority_vote_annotations_query returns, for each entity with an
\* annotation under the label whose value is neither 0 nor NOT_ANNOTATED,
\* exactly one row; its value has the greatest summed weight and its weight
\* is that sum. An entity without such an annotation has no row.
C15_OneRowPerEntityWithGreatestWeight ==
    ca_last.op = "majority_vote_annotations_query"
    => \A e \in Entities :
          LET rows == {r \in ca_last.rows : r.entity = e}
              values == VoteValues(ca_last.label, e)
          IN IF values = {}
             THEN rows = {}
             ELSE /\ Cardinality(rows) = 1
                  /\ \A r \in rows :
                        /\ r.value \in values
                        /\ r.weight = SummedWeight(ca_last.label, e, r.value)
                        /\ \A v \in values :
                              SummedWeight(ca_last.label, e, v) <= r.weight

\* The winner of an entity has the greater sum of weights, and the other
\* value has a weight no smaller than each of the winner's.
C15_Witness ==
    /\ ca_last.op = "majority_vote_annotations_query"
    /\ \E r \in ca_last.rows :
          /\ r.weight = 3
          /\ \E i \in 1..Len(ca_table) :
                /\ ca_table[i].entity = r.entity
                /\ ca_table[i].label = ca_last.label
                /\ ca_table[i].value \in {POSITIVE, NEGTIVE} \ {r.value}
                /\ ca_table[i].weight = 2

(***************************************************************************)
(* Properties of the agreement between annotators                          *)
(***************************************************************************)
\* The values a user annotated for an entity under a label.
ValuesUnder(user, entity, label) ==
    {ca_table[i].value : i \in {j \in classification_annotations(user) :
                                  /\ ca_table[j].entity = entity
                                  /\ ca_table[j].label = label}}

\* The entities both users annotated under a label.
SharedUnder(a, b, label) ==
    {e \in Entities : /\ ValuesUnder(a, e, label) # {}
                      /\ ValuesUnder(b, e, label) # {}}

\* C16: the two sequences the kappa of a label is computed from hold, for a
\* pair of annotators, their values under that label on exactly the
\* entities both annotated under that label; a pair that shares no entity
\* under the label has no sequences.
C16_KappaOverAnnotationsOfTheLabel ==
    ca_last.op = "compute_annotation_statistics_db"
    => \A p \in DOMAIN ca_last.raw :
          LET shared == SharedUnder(p[1], p[2], ca_last.label)
              data == ca_last.raw[p]
          IN IF shared = {}
             THEN data = NoOverlap
             ELSE /\ data.overlap
                  /\ \E entities \in Perms(shared) :
                        /\ Len(data.r1) = Len(entities)
                        /\ Len(data.r2) = Len(entities)
                        /\ \A k \in 1..Len(entities) :
                              /\ data.r1[k] \in ValuesUnder(p[1], entities[k],
                                                            ca_last.label)
                              /\ data.r2[k] \in ValuesUnder(p[2], entities[k],
                                                            ca_last.label)

\* C17: a pair whose shared positions all hold a 0 on one side or the other
\* has no entry in the matrix.
C17_NoObservationNoEntry ==
    (ca_last.op = "compute_annotation_statistics_db"
     /\ ca_last.raised = None)
    => \A p \in DOMAIN ca_last.raw :
          (/\ ca_last.raw[p].overlap
           /\ ExcludeUnknowns(ca_last.raw[p].r1, ca_last.raw[p].r2).r1 = <<>>)
          => /\ <<p[1], p[2]>> \notin DOMAIN ca_last.matrix
             /\ <<p[2], p[1]>> \notin DOMAIN ca_last.matrix

\* C18: the matrix has the entries [a][b] and [b][a] only for the pairs whose
\* raw data is not None; two annotators without a common entity have no
\* entry, and none is created with the default 0.0.
C18_NoOverlapNoEntry ==
    (ca_last.op = "compute_annotation_statistics_db"
     /\ ca_last.raised = None)
    => \A a \in distinct_users : \A b \in distinct_users \ {a} :
          /\ <<a, b>> \in DOMAIN ca_last.matrix
                => ca_last.raw[SortedPair(a, b)].overlap
          /\ ({ca_table[i].entity : i \in classification_annotations(a)}
                \cap {ca_table[i].entity : i \in classification_annotations(b)}
                = {})
                => /\ ca_last.raw[SortedPair(a, b)] = NoOverlap
                   /\ <<a, b>> \notin DOMAIN ca_last.matrix
                   /\ <<b, a>> \notin DOMAIN ca_last.matrix

\* Two annotators share an entity and have their entries; a third one shares
\* none with the first and has no entry with it.
C18_Witness ==
    /\ ca_last.op = "compute_annotation_statistics_db"
    /\ ca_last.raised = None
    /\ distinct_users = {"u1", "u2", "u3"}
    /\ <<"u1", "u2">> \in DOMAIN ca_last.matrix
    /\ ca_last.raw[<<"u1", "u3">>] = NoOverlap
    /\ <<"u1", "u3">> \notin DOMAIN ca_last.matrix

\* C19: for two sequences of equal length,
\* _exclude_unknowns_for_kappa_calculation returns two sequences of equal
\* length holding the pairs of the positions where neither is 0, in the
\* order of the positions; the positions dropped and the positions kept add
\* up to the length of the input.
C19_ExcludeUnknownsKeepsNonZeroPairsInOrder ==
    (/\ pure_last.op = "_exclude_unknowns_for_kappa_calculation"
     /\ Len(pure_last.r1) = Len(pure_last.r2))
    => LET r1 == pure_last.r1
           r2 == pure_last.r2
           keep == {i \in 1..Len(r1) : r1[i] # 0 /\ r2[i] # 0}
           dropped == {i \in 1..Len(r1) : r1[i] = 0 \/ r2[i] = 0}
           kept == Len(pure_last.ret1)
       IN /\ pure_last.raised = None
          /\ Len(pure_last.ret2) = kept
          /\ kept = Cardinality(keep)
          /\ Cardinality(dropped) + kept = Len(r1)
          /\ \E idx \in [1..kept -> keep] :
                /\ \A j, k \in 1..kept : j < k => idx[j] < idx[k]
                /\ \A k \in 1..kept : /\ pure_last.ret1[k] = r1[idx[k]]
                                      /\ pure_last.ret2[k] = r2[idx[k]]

\* Each sequence has a 0 where the other has none, and a pair is kept.
C19_Witness ==
    /\ pure_last.op = "_exclude_unknowns_for_kappa_calculation"
    /\ Len(pure_last.r1) = MaxLen
    /\ Len(pure_last.r2) = MaxLen
    /\ \E i, j \in 1..MaxLen :
          /\ pure_last.r1[i] = 0 /\ pure_last.r2[i] # 0
          /\ pure_last.r1[j] # 0 /\ pure_last.r2[j] = 0
    /\ Len(pure_last.ret1) > 0

\* C20: when the agreement of one pair cannot be computed,
\* _compute_kappa_matrix does not raise and still returns the entries of
\* the other pairs.
C20_FailedPairDoesNotAbortTheBatch ==
    ca_last.op = "_compute_kappa_matrix"
    => /\ ca_last.raised = None
       /\ \A p \in DOMAIN ca_last.raw :
             (/\ ca_last.raw[p].overlap
              /\ Len(ca_last.raw[p].r1) = Len(ca_last.raw[p].r2))
             => /\ <<p[1], p[2]>> \in DOMAIN ca_last.matrix
                /\ <<p[2], p[1]>> \in DOMAIN ca_last.matrix

(***************************************************************************)
(* Properties of the export of the labelled examples                       *)
(***************************************************************************)
AsSet(s) == {s[i] : i \in 1..Len(s)}

Permuted(s, p) == [i \in 1..Len(s) |-> s[p[i]]]

Exported == exp_last.op = "export_labeled_examples"

\* The entities of the annotations that were read.
ExportedIds == {exp_last.annos[i].req.ar_id : i \in 1..Len(exp_last.annos)}

\* The annotations of entity ar_id that were read.
AnnotationsAbout(ar_id) ==
    {i \in 1..Len(exp_last.annos) : exp_last.annos[i].req.ar_id = ar_id}

\* How many annotators gave entity ar_id the value v under label_key.
VotesFor(ar_id, label_key, v) ==
    Cardinality({i \in AnnotationsAbout(ar_id) :
                    /\ label_key \in DOMAIN exp_last.annos[i].anno.labels
                    /\ exp_last.annos[i].anno.labels[label_key] = v})

\* The labels under which entity ar_id received a value other than 0.
NonZeroLabels(ar_id) ==
    {k \in ExportLabels : \E v \in {1, -1} : VotesFor(ar_id, k, v) > 0}

\* The ways of telling which exported record belongs to which entity: the
\* records do not carry the ar_id.
RecordOwners ==
    {f \in [1..Len(exp_last.final) -> ExportedIds] :
        \A i, j \in 1..Len(exp_last.final) : f[i] = f[j] => i = j}

\* C21: the set of exported records is the same for every order in which
\* the annotation records are fed to _export_distinct_labeled_examples.
C21_ExportIsOrderIndependent ==
    Exported =>
        \A p \in Perms(1..Len(exp_last.annos)) :
            AsSet(_export_distinct_labeled_examples(
                      Permuted(exp_last.annos, p))) = AsSet(exp_last.final)

\* C22: the export holds exactly one record for each entity that has a
\* label with a non-zero value from some annotator, one annotator being
\* enough, and none for an entity with unsure values only or no label.
C22_OneRecordPerEntityWithANonZeroLabel ==
    Exported =>
        /\ Len(exp_last.final)
             = Cardinality({id \in ExportedIds : NonZeroLabels(id) # {}})
        /\ \E f \in RecordOwners :
              \A i \in 1..Len(exp_last.final) :
                  /\ NonZeroLabels(f[i]) # {}
                  /\ DOMAIN exp_last.final[i].labels # {}
                  /\ \E j \in AnnotationsAbout(f[i]) :
                        exp_last.final[i].text
                          = Text(exp_last.annos[j].req.data)

C22_Witness ==
    /\ Exported
    /\ Len(exp_last.final) = 1
    /\ \E id \in ExportedIds :
          /\ NonZeroLabels(id) # {}
          /\ Cardinality(AnnotationsAbout(id)) = 1
    /\ \E id \in ExportedIds :
          /\ NonZeroLabels(id) = {}
          /\ \E i \in AnnotationsAbout(id) :
                DOMAIN exp_last.annos[i].anno.labels # {}

MatrixReturned ==
    /\ ca_last.op = "_compute_kappa_matrix"
    /\ ca_last.raised = None

C26_DiagonalIsOne ==
    MatrixReturned =>
        \A k \in DOMAIN ca_last.matrix :
            /\ <<k[1], k[1]>> \in DOMAIN ca_last.matrix
            /\ <<k[2], k[2]>> \in DOMAIN ca_last.matrix
            /\ ca_last.matrix[<<k[1], k[1]>>] = Score(1, 1)
            /\ ca_last.matrix[<<k[2], k[2]>>] = Score(1, 1)

\* u2 is in two pairs that both have an entry, with scores other than 1.
C26_Witness ==
    /\ MatrixReturned
    /\ <<"u1", "u2">> \in DOMAIN ca_last.matrix
    /\ <<"u2", "u3">> \in DOMAIN ca_last.matrix
    /\ ca_last.matrix[<<"u1", "u2">>] # Score(1, 1)
    /\ ca_last.matrix[<<"u2", "u3">>] # Score(1, 1)
    /\ ca_last.matrix[<<"u2", "u2">>] = Score(1, 1)

(***************************************************************************)
(* Properties of persisting an AnnotationRequest                           *)
(***************************************************************************)
\* A step that persists a request.
RequestPersisted ==
    /\ db_next_id' = db_next_id + 1
    /\ db_last'.op = "add AnnotationRequest"

\* C27: persisting a request without a task stores exactly one request and
\* no Task row, and request.task stays None; persisting a request with a
\* new Task stores exactly one request and exactly one Task, the one the
\* request refers to.
C27_PersistingARequestStoresItsTaskOnly ==
    [][RequestPersisted =>
          /\ Cardinality(ar_table') = Cardinality(ar_table) + 1
          /\ ar_table \subseteq ar_table'
          /\ task_table \subseteq task_table'
          /\ \A req \in ar_table' \ ar_table :
                IF db_last'.task = None
                THEN /\ task_table' = task_table
                     /\ req.task_id = None
                ELSE /\ Cardinality(task_table') = Cardinality(task_table) + 1
                     /\ \A t \in task_table' \ task_table :
                           /\ t.name = db_last'.task
                           /\ req.task_id = t.id]_vars

\* One request without a task and one with its Task are stored.
C27_Witness ==
    /\ db_last.op = "add AnnotationRequest"
    /\ Cardinality(ar_table) = 2
    /\ Cardinality(task_table) = 1
    /\ \E req \in ar_table : req.task_id = None
    /\ \E req \in ar_table, t \in task_table : req.task_id = t.id

(***************************************************************************)
(* Properties of the work loop of an annotator                             *)
(***************************************************************************)
\* get_next_ar has returned None: the work loop has ended.
WorkLoopEnded ==
    /\ last.op = "get_next_ar"
    /\ last.raised = None
    /\ last.ret = None

\* C28: the work loop over n >= 1 requests, none annotated at the start,
\* ends only when every one of the requests has been annotated.
C28_WorkLoopEndsWithEveryRequestAnnotated ==
    WorkLoopEnded =>
        \A ar_id \in DOMAIN areq["u1"] : ar_id \in DOMAIN anno["u1"]

\* With two requests or more the loop does end with all of them annotated.
C28_LoopOverSeveralRequests ==
    (WorkLoopEnded /\ Cardinality(DOMAIN areq["u1"]) >= 2) =>
        \A ar_id \in DOMAIN areq["u1"] : ar_id \in DOMAIN anno["u1"]

(***************************************************************************)
(* Properties of a read during a save for the same annotator               *)
(***************************************************************************)
\* The listings of the annotator's requests before the save started.
OldListings ==
    IF conc.start.areq_isdir[conc.a_user]
    THEN SortedByCtimeDesc(conc.start.areq[conc.a_user])
    ELSE {<<>>}

\* The listings of the annotator's requests once the save has returned.
NewListings ==
    SortedByCtimeDesc(SaveLoop(EmptyDir, InsertionOrder(conc.a_batch),
                               conc.start.clock))

\* C29: a fetch_all_ar or get_next_ar that runs during a
\* save_new_ar_for_user(clean_existing=True) for the same annotator reads
\* the complete old request list or the complete new one, and does not fail.
C29_ReadDuringSaveSeesOldOrNewList ==
    (/\ conc.a_user = conc.b_user
     /\ conc.a_clean
     /\ conc.b_pc = "done")
    => /\ conc.b_raised = None
       /\ conc.b_ar_all \in OldListings \cup NewListings

(***************************************************************************)
(* Properties of the dummy annotations                                     *)
(***************************************************************************)
\* C30: whenever no call is at work, every (entity_type, label) that a
\* save_labels_by_entity_type call has saved has exactly one dummy
\* annotation, none has more than one, and no call has raised, so that a
\* later get_or_create for it finds that one instance.
C30_ExactlyOneDummyPerLabel ==
    (\A s \in Sessions : sessions[s].pc \in {"idle", "done"})
    => /\ \A s \in Sessions : sessions[s].raised = None
       /\ \A entity_type \in EntityTypes, label \in Labels :
             Cardinality(FilterBy(entity_type, label)) <= 1
       /\ \A s \in Sessions : \A i \in 1..Len(sessions[s].labels) :
             Cardinality(FilterBy(sessions[s].entity_type,
                                  sessions[s].labels[i])) = 1

\* One session alone, calling again and again, keeps one dummy per label.
C30_OneSessionKeepsOneDummy ==
    (/\ sessions["s2"].calls = 0
     /\ sessions["s1"].pc \in {"idle", "done"})
    => /\ sessions["s1"].raised = None
       /\ \A entity_type \in EntityTypes, label \in Labels :
             Cardinality(FilterBy(entity_type, label)) <= 1
       /\ \A i \in 1..Len(sessions["s1"].labels) :
             Cardinality(FilterBy(sessions["s1"].entity_type,
                                  sessions["s1"].labels[i])) = 1

====
